---- MODULE Spec2Model ----
(***************************************************************************)
(* Model of the sc-api worker (venturecrane/sc-console): the experiment    *)
(* status state machine (PATCH /experiments/:id), lead intake (POST        *)
(* /leads), event deduplication (POST /events), the Stripe webhook (POST   *)
(* /payments/webhook), the experiment reads (GET /experiments, by-slug,    *)
(* :id) and the authentication middleware, over the D1 store.              *)
(*                                                                         *)
(* Every handler is a sequence of steps, one per store round trip (each    *)
(* `await c.env.DB...` is a suspension point); the synchronous code that   *)
(* follows a round trip belongs to the same step.  Handlers of different   *)
(* requests interleave at these points.  A connection p keeps its last     *)
(* request together with the response (pc = "done") until it sends the     *)
(* next one.                                                               *)
(***************************************************************************)
EXTENDS Integers, Sequences, FiniteSets, TLC

\* ------------------------------------------------------------------ bounds

\* Concurrent requests of one kind that may be in flight.
NumProcs == 2
\* Clock ticks (ms) that may pass during a run of Spec / SpecLeads.
MaxTicks == 1
\* Rows event_log may hold.
MaxEvents == 2
\* Rows experiments may hold in SpecCreate.
MaxExperiments == 3

Procs == 1..NumProcs

\* ------------------------------------------------------------------ values

\* SQL NULL / JS undefined of a text field.
Absent == "<absent>"
\* SQL NULL of an integer column (launched_at, decided_at).  The code tests
\* these columns by truthiness (!currentExperiment.launched_at), for which
\* NULL and 0 agree; Date.now() is never 0.
NoTime == 0
\* SQL NULL of an integer column whose values are never negative
\* (price_cents, max_spend_cents, payment_amount_cents).
NoInt == -1

Statuses == {"draft", "preflight", "build", "launch", "run", "decide", "archive"}

\* Experiment ids a request may name: SC-2026-001, which exists, and
\* SC-2026-002, which does not.
ExpIds == {1, 2}

VARIABLES
    now,          \* wall clock, epoch ms (Date.now())
    experiments,  \* experiments table: id -> row
    patchReq,     \* PATCH /experiments/:id: per connection, the request in
                  \* flight or the last request with its response
    leads,        \* leads table: the rows in insertion order (id = position)
    leadReq,      \* POST /leads: per connection, as patchReq
    event_log,    \* event_log table: the rows in insertion order (id = position)
    eventReq,     \* POST /events: per connection, as patchReq
    payments,     \* payments table: the rows in insertion order (id = position)
    hookReq,      \* POST /payments/webhook: per connection, as patchReq
    getReq,       \* GET /experiments, /experiments/by-slug/:slug, /experiments/:id
    httpReq,      \* per connection, the request line and key authMiddleware saw
                  \* last, with its verdict
    storeAccess,  \* per route and connection: the request in the slot has
                  \* issued a statement to the store
    createReq     \* POST /experiments: per connection, as patchReq

vars == <<now, experiments, patchReq, leads, leadReq, event_log, eventReq,
          payments, hookReq, getReq, httpReq, storeAccess, createReq>>

\* What the handlers of one route leave alone besides the tables they use
\* and their store-access mark.
nonPatchVars == <<leads, leadReq, event_log, eventReq, payments, hookReq, getReq, httpReq,
                  createReq>>
nonLeadVars == <<now, patchReq, event_log, eventReq, payments, hookReq, getReq, httpReq,
                 createReq>>
nonEventVars == <<experiments, patchReq, leads, leadReq, payments, hookReq, getReq, httpReq,
                  createReq>>
nonHookVars == <<now, experiments, patchReq, leadReq, eventReq, getReq, httpReq, createReq>>
nonGetVars == <<now, experiments, patchReq, leads, leadReq, event_log, eventReq,
                payments, hookReq, httpReq, createReq>>
nonCreateVars == <<now, patchReq, leads, leadReq, event_log, eventReq, payments, hookReq,
                   getReq, httpReq, storeAccess>>

\* The request of connection p on a route has (flag) or has not yet issued a
\* statement to the store.
MarkStoreAccess(route, p, flag) ==
    storeAccess' = [storeAccess EXCEPT ![route][p] = flag]

\* The clock starts at a whole second after the epoch.
StartTime == 1000 * 1000

\* strftime('%s','now') * 1000: the store's clock has second resolution.
StoreNow(t) == (t \div 1000) * 1000

\* ------------------------------------------------------------------ state machine

\* VALID_STATUS_TRANSITIONS: current status -> allowed next statuses, in the
\* order of the source arrays.
VALID_STATUS_TRANSITIONS ==
    [draft     |-> <<"preflight", "archive">>,
     preflight |-> <<"build", "draft", "archive">>,
     build     |-> <<"launch", "preflight", "archive">>,
     launch    |-> <<"run", "archive">>,
     run       |-> <<"decide", "archive">>,
     decide    |-> <<"archive">>,
     archive   |-> << >>]

SeqRange(s) == {s[i] : i \in 1..Len(s)}

\* Mutant: build may go on to run without passing launch.
AllowedTransitions_BuildToRun(currentStatus) ==
    IF currentStatus = "build" THEN <<"launch", "run", "preflight", "archive">>
    ELSE IF currentStatus \in DOMAIN VALID_STATUS_TRANSITIONS
    THEN VALID_STATUS_TRANSITIONS[currentStatus]
    ELSE << >>

\* VALID_STATUS_TRANSITIONS[currentStatus] || []
AllowedTransitions(currentStatus) ==
    IF currentStatus \in DOMAIN VALID_STATUS_TRANSITIONS
    THEN VALID_STATUS_TRANSITIONS[currentStatus]
    ELSE << >>

\* Mutant: the same-status shortcut is missing.
isValidStatusTransition_NoSame(currentStatus, newStatus) ==
    newStatus \in SeqRange(AllowedTransitions(currentStatus))

isValidStatusTransition(currentStatus, newStatus) ==
    IF currentStatus = newStatus
    THEN TRUE
    ELSE newStatus \in SeqRange(AllowedTransitions(currentStatus))

\* ------------------------------------------------------------------ responses

NoDetails == [current_status |-> Absent, requested_status |-> Absent,
              allowed_transitions |-> << >>]

NoResponse == [http |-> 0, success |-> FALSE, code |-> "", details |-> NoDetails]

ErrorResponse(http, code) ==
    [http |-> http, success |-> FALSE, code |-> code, details |-> NoDetails]

SuccessResponse(http) ==
    [http |-> http, success |-> TRUE, code |-> "", details |-> NoDetails]

\* ------------------------------------------------------------------ PATCH /experiments/:id

\* Bodies that give an experiment another slug.
SlugBodies == [status : {Absent}, name : {Absent}, slug : {"s1", "s2"}, other : {Absent}]

\* What the handler uses of the row it read (SELECT * FROM experiments).
NoRow == [status |-> Absent, launched_at |-> NoTime, decided_at |-> NoTime]
RowRead(row) == [status |-> row.status, launched_at |-> row.launched_at,
                 decided_at |-> row.decided_at]

\* A connection: the request (id, body), the status of the row it read
\* (currentStatus), the launched_at / decided_at bindings of its UPDATE and,
\* once done, the response.
IdlePatch == [pc |-> "idle", id |-> 0,
              body |-> [status |-> Absent, name |-> Absent, slug |-> Absent,
                        other |-> Absent],
              currentStatus |-> Absent, launched_at |-> NoTime, decided_at |-> NoTime,
              resp |-> NoResponse]

\* The launched_at binding of the UPDATE: Date.now() when the new status is
\* launch and the row read has no launched_at, no binding (NoTime) otherwise.
\* Mutant: the stamp ignores the launched_at already stored.
LaunchedAtStamp_Always(newStatus, cur, t) ==
    IF newStatus = "launch" THEN t ELSE NoTime

LaunchedAtStamp(newStatus, cur, t) ==
    IF newStatus = "launch" /\ cur.launched_at = NoTime THEN t ELSE NoTime

\* The decided_at binding of the UPDATE.
DecidedAtStamp(newStatus, cur, t) ==
    IF newStatus = "decide" /\ cur.decided_at = NoTime THEN t ELSE NoTime

\* Mutant: a key outside the allow list counts as a field to update.
NoFieldsToUpdate_AnyKey(body) ==
    body.status = Absent /\ body.name = Absent /\ body.slug = Absent
    /\ body.other = Absent

\* updateFields.length === 0
NoFieldsToUpdate(body) ==
    body.status = Absent /\ body.name = Absent /\ body.slug = Absent

\* Mutant: the details list the transitions of the requested status.
InvalidTransitionResponse_OfRequested(currentStatus, newStatus) ==
    [http |-> 400, success |-> FALSE, code |-> "INVALID_STATUS_TRANSITION",
     details |-> [current_status |-> currentStatus,
                  requested_status |-> newStatus,
                  allowed_transitions |-> AllowedTransitions(newStatus)]]

InvalidTransitionResponse(currentStatus, newStatus) ==
    [http |-> 400, success |-> FALSE, code |-> "INVALID_STATUS_TRANSITION",
     details |-> [current_status |-> currentStatus,
                  requested_status |-> newStatus,
                  allowed_transitions |-> VALID_STATUS_TRANSITIONS[currentStatus]]]

PatchReply(p, id, body, cur, resp) ==
    patchReq' = [patchReq EXCEPT ![p] =
        [pc |-> "done", id |-> id, body |-> body, currentStatus |-> cur.status,
         launched_at |-> NoTime, decided_at |-> NoTime, resp |-> resp]]

\* Mutant: the allow-listed fields of the body are written before the status
\* transition is validated.
PatchRead_FieldsFirst(p, ids, bodies) ==
    /\ patchReq[p].pc \in {"idle", "done"}
    /\ \E id \in ids, body \in bodies :
        IF id \notin DOMAIN experiments
        THEN /\ PatchReply(p, id, body, NoRow, ErrorResponse(404, "EXPERIMENT_NOT_FOUND"))
             /\ UNCHANGED experiments
        ELSE LET cur == RowRead(experiments[id]) IN
             IF body.status # Absent /\ ~isValidStatusTransition(cur.status, body.status)
             THEN /\ PatchReply(p, id, body, cur,
                                InvalidTransitionResponse(cur.status, body.status))
                  /\ experiments' = [experiments EXCEPT ![id].name =
                                        IF body.name # Absent THEN body.name ELSE @]
             ELSE /\ UNCHANGED experiments
                  /\ IF NoFieldsToUpdate(body)
                     THEN PatchReply(p, id, body, cur, ErrorResponse(400, "INVALID_REQUEST"))
                     ELSE patchReq' = [patchReq EXCEPT ![p] =
                            [pc |-> "update", id |-> id, body |-> body,
                             currentStatus |-> cur.status,
                             launched_at |-> IF body.status = Absent THEN NoTime
                                             ELSE LaunchedAtStamp(body.status, cur, now),
                             decided_at |-> IF body.status = Absent THEN NoTime
                                            ELSE DecidedAtStamp(body.status, cur, now),
                             resp |-> NoResponse]]
    /\ MarkStoreAccess("patch", p, TRUE)
    /\ UNCHANGED <<now, nonPatchVars>>

\* SELECT * FROM experiments WHERE id = ?, then the synchronous validation and
\* the construction of updateFields / bindings up to the UPDATE.
PatchRead(p, ids, bodies) ==
    /\ patchReq[p].pc \in {"idle", "done"}
    /\ \E id \in ids, body \in bodies :
        IF id \notin DOMAIN experiments
        THEN PatchReply(p, id, body, NoRow, ErrorResponse(404, "EXPERIMENT_NOT_FOUND"))
        ELSE LET cur == RowRead(experiments[id]) IN
             IF body.status # Absent /\ ~isValidStatusTransition(cur.status, body.status)
             THEN PatchReply(p, id, body, cur,
                             InvalidTransitionResponse(cur.status, body.status))
             ELSE IF NoFieldsToUpdate(body)
             THEN PatchReply(p, id, body, cur, ErrorResponse(400, "INVALID_REQUEST"))
             ELSE patchReq' = [patchReq EXCEPT ![p] =
                        [pc |-> "update", id |-> id, body |-> body,
                         currentStatus |-> cur.status,
                         launched_at |-> IF body.status = Absent THEN NoTime
                                         ELSE LaunchedAtStamp(body.status, cur, now),
                         decided_at |-> IF body.status = Absent THEN NoTime
                                        ELSE DecidedAtStamp(body.status, cur, now),
                         resp |-> NoResponse]]
    /\ MarkStoreAccess("patch", p, TRUE)
    /\ UNCHANGED <<now, experiments, nonPatchVars>>

\* Mutant: every key of the body that names a column is written.
UpdatedRow_AnyColumn(row, r) ==
    [row EXCEPT
        !.status = IF r.body.status # Absent THEN r.body.status ELSE @,
        !.launched_at = IF r.body.other = "launched_at" THEN 1
                        ELSE IF r.launched_at # NoTime THEN r.launched_at ELSE @,
        !.decided_at = IF r.body.other = "decided_at" THEN 1
                       ELSE IF r.decided_at # NoTime THEN r.decided_at ELSE @,
        !.created_at = IF r.body.other = "created_at" THEN 1 ELSE @,
        !.name = IF r.body.name # Absent THEN r.body.name ELSE @,
        !.slug = IF r.body.slug # Absent THEN r.body.slug ELSE @]

\* The row after UPDATE experiments SET <updateFields> WHERE id = ?: the
\* status, the stamps and the keys of updatableFields the body carries.
UpdatedRow(row, r) ==
    [row EXCEPT
        !.status = IF r.body.status # Absent THEN r.body.status ELSE @,
        !.launched_at = IF r.launched_at # NoTime THEN r.launched_at ELSE @,
        !.decided_at = IF r.decided_at # NoTime THEN r.decided_at ELSE @,
        !.name = IF r.body.name # Absent THEN r.body.name ELSE @,
        !.slug = IF r.body.slug # Absent THEN r.body.slug ELSE @]

\* Mutant: the table has no UNIQUE on slug.
SlugUniqueViolation_None(exps, id, slug) == FALSE

\* slug TEXT NOT NULL UNIQUE: the statement would leave a second row, other
\* than row id, with this slug.
SlugUniqueViolation(exps, id, slug) ==
    \E other \in DOMAIN exps : other # id /\ exps[other].slug = slug

\* The UPDATE; a constraint violation throws and the catch answers 500
\* INTERNAL_ERROR.
PatchUpdate(p) ==
    /\ patchReq[p].pc = "update"
    /\ LET r == patchReq[p] IN
        IF r.body.slug # Absent /\ SlugUniqueViolation(experiments, r.id, r.body.slug)
        THEN /\ PatchReply(p, r.id, r.body, [NoRow EXCEPT !.status = r.currentStatus],
                           ErrorResponse(500, "INTERNAL_ERROR"))
             /\ UNCHANGED experiments
        ELSE /\ experiments' = [experiments EXCEPT ![r.id] = UpdatedRow(@, r)]
             /\ patchReq' = [patchReq EXCEPT ![p].pc = "fetch"]
    /\ UNCHANGED <<now, storeAccess, nonPatchVars>>

\* SELECT * FROM experiments WHERE id = ? and the 200 response.
PatchFetch(p) ==
    /\ patchReq[p].pc = "fetch"
    /\ LET r == patchReq[p] IN
        PatchReply(p, r.id, r.body, [NoRow EXCEPT !.status = r.currentStatus],
                   SuccessResponse(200))
    /\ UNCHANGED <<now, experiments, storeAccess, nonPatchVars>>

\* ------------------------------------------------------------------ POST /leads

\* String.prototype.toLowerCase
toLowerCase(s) == [i \in 1..Len(s) |-> IF s[i] = "A" THEN "a" ELSE s[i]]

RECURSIVE trimStart(_)
trimStart(s) == IF s # << >> /\ Head(s) = " " THEN trimStart(Tail(s)) ELSE s

RECURSIVE trimEnd(_)
trimEnd(s) ==
    IF s # << >> /\ s[Len(s)] = " " THEN trimEnd(SubSeq(s, 1, Len(s) - 1)) ELSE s

\* String.prototype.trim
trim(s) == trimEnd(trimStart(s))

\* Mutant: the email is trimmed but not lower-cased.
normalizedEmail_NoLower(email) == trim(email)

\* const normalizedEmail = email.toLowerCase().trim()
normalizedEmail(email) == trim(toLowerCase(email))

\* hp_field && hp_field.trim() !== ''
HoneypotFilled(hp_field) == hp_field # << >> /\ trim(hp_field) # << >>

\* Submitted emails: test@, its upper-case and padded spelling, and another.
Emails == {<<"a", "@">>, <<" ", "A", "@", " ">>, <<"b", "@">>}

NoLeadResponse == [http |-> 0, success |-> FALSE, code |-> "", lead_id |-> 0,
                   experiment_id |-> 0, slug |-> Absent]

LeadError(http, code) ==
    [http |-> http, success |-> FALSE, code |-> code, lead_id |-> 0,
     experiment_id |-> 0, slug |-> Absent]

LeadSuccess(lead_id, experiment_id, slug) ==
    [http |-> 201, success |-> TRUE, code |-> "", lead_id |-> lead_id,
     experiment_id |-> experiment_id, slug |-> slug]

IdleLead == [pc |-> "idle",
             body |-> [experiment_id |-> 0, email |-> << >>, hp_field |-> << >>],
             slug |-> Absent, email |-> << >>, resp |-> NoLeadResponse]

LeadReply(p, body, resp) ==
    leadReq' = [leadReq EXCEPT ![p] =
        [pc |-> "done", body |-> body, slug |-> Absent, email |-> << >>, resp |-> resp]]

\* SELECT id, slug, status FROM experiments WHERE id = ? AND status IN (?, ?)
AcceptingExperiment(exps, experiment_id) ==
    /\ experiment_id \in DOMAIN exps
    /\ exps[experiment_id].status \in ({"launch", "run"})

\* Mutant: the honeypot short-circuit comes before the status gate.
LeadGateOutcome_HoneypotFirst(body, exps) ==
    IF body.experiment_id = 0 \/ body.email = << >> THEN "invalid"
    ELSE IF body.experiment_id \notin DOMAIN exps THEN "not_found"
    ELSE IF HoneypotFilled(body.hp_field) THEN "honeypot"
    ELSE IF ~AcceptingExperiment(exps, body.experiment_id) THEN "not_found"
    ELSE "insert"

\* Mutant: the gate accepts an experiment of any status.
LeadGateOutcome_AnyStatus(body, exps) ==
    IF body.experiment_id = 0 \/ body.email = << >> THEN "invalid"
    ELSE IF body.experiment_id \notin DOMAIN exps THEN "not_found"
    ELSE IF HoneypotFilled(body.hp_field) THEN "honeypot"
    ELSE "insert"

\* Mutant: the honeypot is not looked at.
LeadGateOutcome_NoHoneypot(body, exps) ==
    IF body.experiment_id = 0 \/ body.email = << >> THEN "invalid"
    ELSE IF ~AcceptingExperiment(exps, body.experiment_id) THEN "not_found"
    ELSE "insert"

\* The order of the handler's checks up to the INSERT: required fields, the
\* experiment gate, the honeypot.
LeadGateOutcome(body, exps) ==
    IF body.experiment_id = 0 \/ body.email = << >> THEN "invalid"
    ELSE IF ~AcceptingExperiment(exps, body.experiment_id) THEN "not_found"
    ELSE IF HoneypotFilled(body.hp_field) THEN "honeypot"
    ELSE "insert"

\* Required-field check, the experiment gate (one SELECT) and the honeypot
\* short-circuit.
LeadGate(p, bodies) ==
    /\ leadReq[p].pc \in {"idle", "done"}
    /\ \E body \in bodies :
        LET outcome == LeadGateOutcome(body, experiments) IN
        /\ MarkStoreAccess("lead", p, outcome # "invalid")
        /\ CASE outcome = "invalid" ->
                LeadReply(p, body, LeadError(400, "INVALID_REQUEST"))
          [] outcome = "not_found" ->
                LeadReply(p, body, LeadError(404, "EXPERIMENT_NOT_FOUND"))
          [] outcome = "honeypot" ->
                \E fakeLeadId \in ({0, 1000000 - 1}) :
                    LeadReply(p, body, LeadSuccess(fakeLeadId, body.experiment_id,
                                                   experiments[body.experiment_id].slug))
          [] outcome = "insert" ->
                leadReq' = [leadReq EXCEPT ![p] =
                    [pc |-> "insert", body |-> body,
                     slug |-> experiments[body.experiment_id].slug,
                     email |-> normalizedEmail(body.email),
                     resp |-> NoLeadResponse]]
    /\ UNCHANGED <<experiments, leads, nonLeadVars>>

\* Mutant: the table has no UNIQUE(experiment_id, email).
LeadsUniqueViolation_None(rows, experiment_id, email) == FALSE

\* UNIQUE(experiment_id, email): the INSERT fails with
\* 'UNIQUE constraint failed: leads.experiment_id, leads.email'.
LeadsUniqueViolation(rows, experiment_id, email) ==
    \E i \in 1..Len(rows) :
        rows[i].experiment_id = experiment_id /\ rows[i].email = email

\* The row INSERT INTO leads (...) adds: created_at is the column default, the
\* payment columns are NULL.
LeadRow(experiment_id, email, t) ==
    [experiment_id |-> experiment_id, email |-> email, created_at |-> StoreNow(t),
     stripe_payment_id |-> Absent, payment_amount_cents |-> NoInt,
     payment_status |-> Absent]

\* INSERT INTO leads (...): a new row with the next AUTOINCREMENT id, or the
\* unique violation mapped to 409 DUPLICATE_LEAD.
LeadInsert(p) ==
    /\ leadReq[p].pc = "insert"
    /\ LET r == leadReq[p] IN
        IF LeadsUniqueViolation(leads, r.body.experiment_id, r.email)
        THEN /\ LeadReply(p, r.body, LeadError(409, "DUPLICATE_LEAD"))
             /\ UNCHANGED leads
        ELSE /\ leads' = Append(leads, LeadRow(r.body.experiment_id, r.email, now))
             /\ LeadReply(p, r.body,
                          LeadSuccess(Len(leads) + 1, r.body.experiment_id, r.slug))
    /\ UNCHANGED <<experiments, storeAccess, nonLeadVars>>

\* ------------------------------------------------------------------ POST /events

\* event_data of a request body: absent, an object (its members in the order
\* received) or a scalar (its JSON literal).
ObjectData(pairs) == [kind |-> "object", pairs |-> pairs, literal |-> ""]

\* event_data is falsy: undefined, null, "", 0 or false.
Falsy(data) ==
    \/ data.kind = "absent"
    \/ data.kind = "scalar" /\ data.literal \in {"null", "\"\"", "0", "false"}

\* The keys in use, in the order Array.prototype.sort gives them.
KeyOrder == <<"a", "b">>
KeyRank(key) == CHOOSE i \in 1..Len(KeyOrder) : KeyOrder[i] = key

RECURSIVE InsertSorted(_, _)
InsertSorted(pair, sorted) ==
    IF sorted = << >> THEN <<pair>>
    ELSE IF KeyRank(pair[1]) <= KeyRank(Head(sorted)[1]) THEN <<pair>> \o sorted
    ELSE <<Head(sorted)>> \o InsertSorted(pair, Tail(sorted))

\* Object.keys(event_data).sort() and the copy into sortedData.
RECURSIVE SortedPairs(_)
SortedPairs(pairs) ==
    IF pairs = << >> THEN << >>
    ELSE InsertSorted(Head(pairs), SortedPairs(Tail(pairs)))

\* JSON.stringify of an object's members, as tokens.
RECURSIVE MemberTokens(_)
MemberTokens(pairs) ==
    IF pairs = << >> THEN << >>
    ELSE <<Head(pairs)[1], ":", Head(pairs)[2]>>
         \o (IF Tail(pairs) = << >> THEN << >> ELSE <<",">>)
         \o MemberTokens(Tail(pairs))

\* JSON.stringify(event_data)
StringifyData(pairs) == <<"{">> \o MemberTokens(pairs) \o <<"}">>

\* x || null for a text value: an absent value and "" both give null.
OrNull(text) == IF text \in {Absent, ""} THEN <<"null">> ELSE <<text>>

\* Mutant: the keys of event_data are hashed in the order received.
computeEventHash_Unsorted(experiment_id, event_type, session_id, event_data) ==
    <<"{", "experiment_id", ":">> \o OrNull(experiment_id)
    \o <<",", "event_type", ":", event_type>>
    \o <<",", "session_id", ":">> \o OrNull(session_id)
    \o <<",", "event_data", ":">>
    \o (IF Falsy(event_data) THEN <<"null">>
        ELSE IF event_data.kind = "object" THEN StringifyData(event_data.pairs)
        ELSE <<event_data.literal>>)
    \o <<"}">>

\* computeEventHash: the canonical JSON text of {experiment_id, event_type,
\* session_id, event_data} with the top-level keys of event_data sorted.  The
\* SHA-256 digest of the text is taken to be free of collisions and is
\* represented by the text.
computeEventHash(experiment_id, event_type, session_id, event_data) ==
    <<"{", "experiment_id", ":">> \o OrNull(experiment_id)
    \o <<",", "event_type", ":", event_type>>
    \o <<",", "session_id", ":">> \o OrNull(session_id)
    \o <<",", "event_data", ":">>
    \o (IF Falsy(event_data) THEN <<"null">>
        ELSE IF event_data.kind = "object" THEN StringifyData(SortedPairs(event_data.pairs))
        ELSE <<event_data.literal>>)
    \o <<"}">>

FiveMinutes == 5 * 60 * 1000

\* Mutant: the window is computed in seconds.
InDedupWindow_Seconds(created_at, t) == created_at > t - 5 * 60

\* created_at > fiveMinutesAgo, with fiveMinutesAgo = Date.now() - 5 * 60 * 1000
InDedupWindow(created_at, t) == created_at > t - FiveMinutes

\* A page view with a two-key payload, and the requests that differ from it
\* in the key order, in visitor_id, in the User-Agent header, in session_id,
\* and in having no event_type.
BaseEvent ==
    [experiment_id |-> "SC-2026-001", event_type |-> "page_view", session_id |-> "s1",
     event_data |-> ObjectData(<<<<"a", "1">>, <<"b", "2">>>>),
     visitor_id |-> "v1", user_agent |-> "ua1"]

EventBodies ==
    {BaseEvent,
     [BaseEvent EXCEPT !.event_data = ObjectData(<<<<"b", "2">>, <<"a", "1">>>>)],
     [BaseEvent EXCEPT !.visitor_id = "v2", !.user_agent = ""],
     [BaseEvent EXCEPT !.session_id = "", !.event_data = ([kind |-> "absent", pairs |-> << >>, literal |-> ""])],
     [BaseEvent EXCEPT !.event_type = ""]}

NoEventResponse == [http |-> 0, success |-> FALSE, code |-> "", event_id |-> 0,
                    deduplicated |-> FALSE]

EventSuccess(event_id, deduplicated) ==
    [http |-> 201, success |-> TRUE, code |-> "", event_id |-> event_id,
     deduplicated |-> deduplicated]

IdleEvent == [pc |-> "idle", body |-> [BaseEvent EXCEPT !.event_type = ""],
              eventHash |-> << >>, resp |-> NoEventResponse]

EventReply(p, body, resp) ==
    eventReq' = [eventReq EXCEPT ![p] =
        [pc |-> "done", body |-> body, eventHash |-> << >>, resp |-> resp]]

\* The ids SELECT id FROM event_log WHERE event_hash = ? AND created_at > ?
\* may return (LIMIT 1 without ORDER BY returns any one of them).
ExistingEvents(rows, eventHash, t) ==
    {i \in 1..Len(rows) :
        rows[i].event_hash = eventHash /\ InDedupWindow(rows[i].created_at, t)}

\* Required-field check, computeEventHash and the dedup SELECT.
EventCheck(p, bodies) ==
    /\ eventReq[p].pc \in {"idle", "done"}
    /\ \E body \in bodies :
        /\ MarkStoreAccess("event", p, body.event_type \notin {Absent, ""})
        /\ IF body.event_type \in {Absent, ""}
           THEN EventReply(p, body, [http |-> 400, success |-> FALSE,
                                      code |-> "INVALID_REQUEST", event_id |-> 0,
                                      deduplicated |-> FALSE])
           ELSE LET eventHash == computeEventHash(body.experiment_id, body.event_type,
                                               body.session_id, body.event_data)
                 existing == ExistingEvents(event_log, eventHash, now)
             IN IF existing # {}
                THEN \E id \in existing : EventReply(p, body, EventSuccess(id, TRUE))
                ELSE eventReq' = [eventReq EXCEPT ![p] =
                        [pc |-> "insert", body |-> body, eventHash |-> eventHash,
                         resp |-> NoEventResponse]]
    /\ UNCHANGED <<now, event_log, nonEventVars>>

\* The row INSERT INTO event_log (...) adds; created_at is the column default.
EventRow(body, eventHash, t) ==
    [experiment_id |-> OrNull(body.experiment_id),
     event_type |-> body.event_type,
     event_data |-> IF Falsy(body.event_data) THEN <<"null">>
                    ELSE IF body.event_data.kind = "object"
                    THEN StringifyData(body.event_data.pairs)
                    ELSE <<body.event_data.literal>>,
     event_hash |-> eventHash,
     session_id |-> OrNull(body.session_id),
     visitor_id |-> OrNull(body.visitor_id),
     user_agent |-> OrNull(body.user_agent),
     created_at |-> StoreNow(t)]

\* Mutant: the INSERT looks for a recent row with the hash once more and
\* answers with it instead of inserting.
EventInsert_Atomic(p) ==
    /\ eventReq[p].pc = "insert"
    /\ Len(event_log) < MaxEvents
    /\ LET r == eventReq[p]
           existing == ExistingEvents(event_log, r.eventHash, now)
       IN IF existing # {}
          THEN /\ event_log' = event_log
               /\ \E id \in existing : EventReply(p, r.body, EventSuccess(id, TRUE))
          ELSE /\ event_log' = Append(event_log, EventRow(r.body, r.eventHash, now))
               /\ EventReply(p, r.body, EventSuccess(Len(event_log) + 1, FALSE))
    /\ UNCHANGED <<now, storeAccess, nonEventVars>>

\* INSERT INTO event_log and the 201 response with the new id.
EventInsert(p) ==
    /\ eventReq[p].pc = "insert"
    /\ Len(event_log) < MaxEvents
    /\ LET r == eventReq[p] IN
        /\ event_log' = Append(event_log, EventRow(r.body, r.eventHash, now))
        /\ EventReply(p, r.body, EventSuccess(Len(event_log) + 1, FALSE))
    /\ UNCHANGED <<now, storeAccess, nonEventVars>>

\* ------------------------------------------------------------------ POST /payments/webhook

\* The raw bodies in use and what JSON.parse makes of them: the event type
\* and, of event.data.object, the id, the payment_intent of a charge or a
\* dispute, the amount, metadata.lead_id, metadata.experiment_id (0: not
\* given) and receipt_email (<< >>: not given).
Payloads ==
    [pi1_meta  |-> [type |-> "payment_intent.succeeded", id |-> "pi_1",
                    payment_intent |-> Absent, amount |-> 500,
                    lead_id |-> 1, experiment_id |-> 1, receipt_email |-> << >>],
     pi2_email |-> [type |-> "payment_intent.succeeded", id |-> "pi_2",
                    payment_intent |-> Absent, amount |-> 700,
                    lead_id |-> 0, experiment_id |-> 0,
                    receipt_email |-> <<" ", "A", "@", " ">>],
     pi3_none  |-> [type |-> "payment_intent.succeeded", id |-> "pi_3",
                    payment_intent |-> Absent, amount |-> 900,
                    lead_id |-> 0, experiment_id |-> 0, receipt_email |-> <<"b", "@">>],
     pi4_both  |-> [type |-> "payment_intent.succeeded", id |-> "pi_4",
                    payment_intent |-> Absent, amount |-> 400,
                    lead_id |-> 1, experiment_id |-> 1, receipt_email |-> <<"a", "@">>],
     pi5_exp   |-> [type |-> "payment_intent.succeeded", id |-> "pi_5",
                    payment_intent |-> Absent, amount |-> 600,
                    lead_id |-> 0, experiment_id |-> 1, receipt_email |-> <<"b", "@">>],
     pi6_ghost |-> [type |-> "payment_intent.succeeded", id |-> "pi_6",
                    payment_intent |-> Absent, amount |-> 800,
                    lead_id |-> 9, experiment_id |-> 1, receipt_email |-> <<"a", "@">>],
     pi7_cross |-> [type |-> "payment_intent.succeeded", id |-> "pi_7",
                    payment_intent |-> Absent, amount |-> 300,
                    lead_id |-> 0, experiment_id |-> 1, receipt_email |-> <<"a", "@">>],
     failed_pi1  |-> [type |-> "payment_intent.payment_failed", id |-> "pi_1",
                      payment_intent |-> Absent, amount |-> 500,
                      lead_id |-> 1, experiment_id |-> 1, receipt_email |-> << >>],
     refund_pi1  |-> [type |-> "charge.refunded", id |-> "ch_1",
                      payment_intent |-> "pi_1", amount |-> 500,
                      lead_id |-> 0, experiment_id |-> 0, receipt_email |-> << >>],
     refund_none |-> [type |-> "charge.refunded", id |-> "ch_9",
                      payment_intent |-> Absent, amount |-> 100,
                      lead_id |-> 0, experiment_id |-> 0, receipt_email |-> << >>],
     dispute_pi1 |-> [type |-> "charge.dispute.created", id |-> "dp_1",
                      payment_intent |-> "pi_1", amount |-> 500,
                      lead_id |-> 0, experiment_id |-> 0, receipt_email |-> << >>],
     other     |-> [type |-> "customer.created", id |-> "cus_1",
                    payment_intent |-> Absent, amount |-> 0,
                    lead_id |-> 0, experiment_id |-> 0, receipt_email |-> << >>]]

\* A body that is not JSON.
NotJson == "not_json"
\* The bodies of the deliveries whose signature checks are exercised.
IntentBodies == {"pi1_meta", "pi2_email", "pi3_none", "other", NotJson}

\* c.env.STRIPE_WEBHOOK_SECRET; << >> when the deployment has none.
NoSecret == << >>
WebhookSecret == <<"whsec_1">>

\* The timestamp Stripe signs with.
SignedAt == <<"1234567890">>

\* crypto.subtle.sign('HMAC', key, `${timestamp}.${body}`) as lowercase hex:
\* the digest stands as the text of what went into it (no collisions).
HmacSha256Hex(secret, timestamp, body) ==
    <<"hmac">> \o secret \o timestamp \o <<".", body>>

\* The stripe-signature header: missing (NoSignature) or its text as the
\* elements between the commas, each element as the parts between its '='.
NoSignature == <<<<<<"<no header>">>>>>>

SignatureHeader(timestamp, sig) == <<<<<<"t">>, timestamp>>, <<<<"v1">>, sig>>>>

\* Headers a request for body raw may carry.
SignatureHeaders(raw) ==
    LET good == HmacSha256Hex(WebhookSecret, SignedAt, raw)
        otherBody == HmacSha256Hex(WebhookSecret, SignedAt, "pi2_email")
    IN [valid       |-> SignatureHeader(SignedAt, good),
        missing     |-> NoSignature,
        malformed   |-> <<<<<<"invalid">>>>>>,
        no_t        |-> <<<<<<"v1">>, good>>>>,
        no_v1       |-> <<<<<<"t">>, SignedAt>>>>,
        empty_t     |-> SignatureHeader(<< >>, good),
        tampered    |-> SignatureHeader(SignedAt, otherBody),
        other_key   |-> SignatureHeader(SignedAt,
                                        HmacSha256Hex(<<"whsec_2">>, SignedAt, raw)),
        other_time  |-> SignatureHeader(<<"1234567891">>, good),
        upper_hex   |-> SignatureHeader(SignedAt, <<"HMAC">> \o Tail(good)),
        overridden  |-> SignatureHeader(SignedAt, good) \o <<<<<<"v1">>, <<"bad">>>>>>]

\* A request: the raw body, the header and the secret of the deployment that
\* serves it.
HookRequest(raw, shape, secret) ==
    [body |-> raw, signature |-> SignatureHeaders(raw)[shape], webhookSecret |-> secret]

\* Correctly signed deliveries of these bodies to a deployment with the
\* secret.
Deliveries(bodies) == {HookRequest(raw, "valid", WebhookSecret) : raw \in bodies}

\* Correctly signed deliveries to a deployment with the secret.
ValidDeliveries == Deliveries((DOMAIN Payloads \cup {NotJson}))

\* signature.split(',').reduce(...): the value of the last element whose first
\* part is key; an element without '=' has no value.  A key that does not
\* occur and a value that is missing or empty all fail the handler's
\* truthiness test, and are << >> here.
RECURSIVE SigElement(_, _)
SigElement(elements, key) ==
    IF elements = << >> THEN << >>
    ELSE LET element == elements[Len(elements)] IN
         IF element[1] = key
         THEN IF Len(element) >= 2 THEN element[2] ELSE << >>
         ELSE SigElement(SubSeq(elements, 1, Len(elements) - 1), key)

NoHookResponse == [http |-> 0, received |-> FALSE, code |-> ""]
HookError(http, code) == [http |-> http, received |-> FALSE, code |-> code]
\* c.json({ received: true }, 200)
HookReceived == [http |-> 200, received |-> TRUE, code |-> ""]

\* Mutant: the format check comes before the check of the configured secret.
HookEdgeOutcome_FormatFirst(req) ==
    LET timestamp == SigElement(req.signature, <<"t">>)
        sig == SigElement(req.signature, <<"v1">>)
    IN IF req.signature = NoSignature THEN HookError(400, "INVALID_REQUEST")
       ELSE IF timestamp = << >> \/ sig = << >> THEN HookError(400, "INVALID_REQUEST")
       ELSE IF req.webhookSecret = NoSecret THEN HookError(500, "INTERNAL_ERROR")
       ELSE IF sig # HmacSha256Hex(req.webhookSecret, timestamp, req.body)
       THEN HookError(400, "INVALID_REQUEST")
       ELSE IF req.body = NotJson THEN HookError(500, "INTERNAL_ERROR")
       ELSE NoHookResponse

\* Mutant: the supplied signature is not compared with the expected one.
HookEdgeOutcome_NoVerify(req) ==
    LET timestamp == SigElement(req.signature, <<"t">>)
        sig == SigElement(req.signature, <<"v1">>)
    IN IF req.signature = NoSignature THEN HookError(400, "INVALID_REQUEST")
       ELSE IF req.webhookSecret = NoSecret THEN HookError(500, "INTERNAL_ERROR")
       ELSE IF timestamp = << >> \/ sig = << >> THEN HookError(400, "INVALID_REQUEST")
       ELSE IF req.body = NotJson THEN HookError(500, "INTERNAL_ERROR")
       ELSE NoHookResponse

\* The checks before the event-type dispatch, in the handler's order: header
\* present, secret configured, t and v1 present, signature equal to the
\* expected one, JSON.parse (a throw ends in the catch: 500).  NoHookResponse
\* when the request passes them all.
HookEdgeOutcome(req) ==
    LET timestamp == SigElement(req.signature, <<"t">>)
        sig == SigElement(req.signature, <<"v1">>)
    IN IF req.signature = NoSignature THEN HookError(400, "INVALID_REQUEST")
       ELSE IF req.webhookSecret = NoSecret THEN HookError(500, "INTERNAL_ERROR")
       ELSE IF timestamp = << >> \/ sig = << >> THEN HookError(400, "INVALID_REQUEST")
       ELSE IF sig # HmacSha256Hex(req.webhookSecret, timestamp, req.body)
       THEN HookError(400, "INVALID_REQUEST")
       ELSE IF req.body = NotJson THEN HookError(500, "INTERNAL_ERROR")
       ELSE NoHookResponse

\* The request follows its own acknowledged delivery on connection p.
IsRedelivery(p, req) ==
    hookReq[p].pc = "done" /\ hookReq[p].resp = HookReceived /\ hookReq[p].req = req

HookSlot(pc, req, leadId, experimentId, redelivery, resp) ==
    [pc |-> pc, req |-> req, leadId |-> leadId, experimentId |-> experimentId,
     redelivery |-> redelivery, resp |-> resp]

\* The first reply to a request that has just arrived.
HookAnswer(p, req, resp) ==
    hookReq' = [hookReq EXCEPT ![p] =
        HookSlot("done", req, 0, 0, IsRedelivery(p, req), resp)]

\* The reply to a request in flight.
HookReply(p, req, leadId, experimentId, resp) ==
    hookReq' = [hookReq EXCEPT ![p] =
        HookSlot("done", req, leadId, experimentId, hookReq[p].redelivery, resp)]

\* Mutant: the handler does not look for the payment of the intent and the
\* table does not refuse a second one.
ExistingPayment_Never(rows, paymentIntentId) == FALSE

\* SELECT id FROM payments WHERE stripe_payment_intent_id = ?
ExistingPayment(rows, paymentIntentId) ==
    \E i \in 1..Len(rows) : rows[i].stripe_payment_intent_id = paymentIntentId

\* Mutant: payment_intent.payment_failed takes the branch of
\* charge.dispute.created.
HookDispatch_FailedAsDisputed(eventType) ==
    IF eventType = "payment_intent.succeeded" THEN "succeeded"
    ELSE IF eventType = "payment_intent.payment_failed" THEN "disputed"
    ELSE IF eventType = "charge.refunded" THEN "refunded"
    ELSE IF eventType = "charge.dispute.created" THEN "disputed"
    ELSE "none"

\* Mutant: an event type without a branch is logged as a failure.
HookDispatch_UnknownAsFailed(eventType) ==
    IF eventType = "payment_intent.succeeded" THEN "succeeded"
    ELSE IF eventType = "payment_intent.payment_failed" THEN "failed"
    ELSE IF eventType = "charge.refunded" THEN "refunded"
    ELSE IF eventType = "charge.dispute.created" THEN "disputed"
    ELSE "failed"

\* The if / else-if chain on eventType: the branch taken.
HookDispatch(eventType) ==
    IF eventType = "payment_intent.succeeded" THEN "succeeded"
    ELSE IF eventType = "payment_intent.payment_failed" THEN "failed"
    ELSE IF eventType = "charge.refunded" THEN "refunded"
    ELSE IF eventType = "charge.dispute.created" THEN "disputed"
    ELSE "none"

\* The row INSERT INTO event_log (event_type, event_data) adds: the other
\* columns are NULL, created_at is the column default.
HookEventRow(event_type, pairs, t) ==
    [experiment_id |-> <<"null">>,
     event_type |-> event_type,
     event_data |-> StringifyData(pairs),
     event_hash |-> <<"null">>,
     session_id |-> <<"null">>,
     visitor_id |-> <<"null">>,
     user_agent |-> <<"null">>,
     created_at |-> StoreNow(t)]

\* Mutant: the UPDATE has no WHERE clause.
SetPaymentStatus_AllRows(rows, paymentIntentId, status) ==
    [i \in 1..Len(rows) |-> [rows[i] EXCEPT !.status = status]]

\* UPDATE payments SET status = ? WHERE stripe_payment_intent_id = ?; a NULL
\* binding matches no row.
SetPaymentStatus(rows, paymentIntentId, status) ==
    [i \in 1..Len(rows) |->
        IF paymentIntentId # Absent /\ rows[i].stripe_payment_intent_id = paymentIntentId
        THEN [rows[i] EXCEPT !.status = status]
        ELSE rows[i]]

\* Mutant: the comparison with a NULL binding matches the rows whose
\* stripe_payment_id is NULL.
RefundedLeads_NullMatches(rows, paymentIntentId) ==
    [i \in 1..Len(rows) |->
        IF rows[i].stripe_payment_id = paymentIntentId
        THEN [rows[i] EXCEPT !.payment_status = "refunded"]
        ELSE rows[i]]

\* UPDATE leads SET payment_status = ? WHERE stripe_payment_id = ?
RefundedLeads(rows, paymentIntentId) ==
    [i \in 1..Len(rows) |->
        IF paymentIntentId # Absent /\ rows[i].stripe_payment_id = paymentIntentId
        THEN [rows[i] EXCEPT !.payment_status = "refunded"]
        ELSE rows[i]]

\* The checks before the dispatch and the first statement of the branch
\* taken: the existing-payment SELECT (and the reading of the metadata) for
\* payment_intent.succeeded, the INSERT INTO event_log and the
\* acknowledgment for payment_intent.payment_failed, the UPDATE payments for
\* charge.refunded and charge.dispute.created; any other event type is
\* acknowledged without a statement.
HookReceive(p, requests) ==
    /\ hookReq[p].pc \in {"idle", "done"}
    /\ \E req \in requests :
        LET edge == HookEdgeOutcome(req) IN
        IF edge # NoHookResponse
        THEN /\ HookAnswer(p, req, edge)
             /\ MarkStoreAccess("hook", p, FALSE)
             /\ UNCHANGED <<payments, event_log>>
        ELSE LET event == Payloads[req.body]
                 branch == HookDispatch(event.type)
             IN
             IF branch = "none"
             THEN /\ HookAnswer(p, req, HookReceived)
                  /\ MarkStoreAccess("hook", p, FALSE)
                  /\ UNCHANGED <<payments, event_log>>
             ELSE IF branch = "succeeded"
             THEN /\ MarkStoreAccess("hook", p, TRUE)
                  /\ IF ExistingPayment(payments, event.id)
                     THEN HookAnswer(p, req, HookReceived)
                     ELSE hookReq' = [hookReq EXCEPT ![p] =
                            HookSlot(IF event.lead_id = 0 /\ event.receipt_email # << >>
                                     THEN "find_lead" ELSE "insert",
                                     req, event.lead_id, event.experiment_id,
                                     IsRedelivery(p, req), NoHookResponse)]
                  /\ UNCHANGED <<payments, event_log>>
             ELSE IF branch = "failed"
             THEN /\ MarkStoreAccess("hook", p, TRUE)
                  /\ Len(event_log) < MaxEvents
                  /\ event_log' = Append(event_log,
                        HookEventRow("payment_failed",
                                     <<<<"payment_intent_id", event.id>>>>, now))
                  /\ HookAnswer(p, req, HookReceived)
                  /\ UNCHANGED payments
             ELSE /\ MarkStoreAccess("hook", p, TRUE)
                  /\ payments' = SetPaymentStatus(payments, event.payment_intent, branch)
                  /\ hookReq' = [hookReq EXCEPT ![p] =
                        HookSlot(IF branch = "refunded" THEN "refund_leads"
                                 ELSE "log_dispute",
                                 req, 0, 0, IsRedelivery(p, req), NoHookResponse)]
                  /\ UNCHANGED event_log
    /\ UNCHANGED <<leads, nonHookVars>>

\* charge.refunded: the UPDATE leads and the acknowledgment.
HookRefundLeads(p) ==
    /\ hookReq[p].pc = "refund_leads"
    /\ LET r == hookReq[p]
           event == Payloads[r.req.body]
       IN /\ leads' = RefundedLeads(leads, event.payment_intent)
          /\ HookReply(p, r.req, 0, 0, HookReceived)
    /\ UNCHANGED <<payments, event_log, storeAccess, nonHookVars>>

\* charge.dispute.created: the INSERT INTO event_log and the acknowledgment.
HookLogDispute(p) ==
    /\ hookReq[p].pc = "log_dispute"
    /\ Len(event_log) < MaxEvents
    /\ LET r == hookReq[p]
           event == Payloads[r.req.body]
       IN /\ event_log' = Append(event_log,
                HookEventRow("charge_disputed",
                             <<<<"payment_intent_id", event.payment_intent>>,
                               <<"dispute_id", event.id>>>>, now))
          /\ HookReply(p, r.req, 0, 0, HookReceived)
    /\ UNCHANGED <<payments, leads, storeAccess, nonHookVars>>

\* Mutant: ORDER BY created_at ASC.
LatestLeadsByEmail_Oldest(rows, email) ==
    {i \in 1..Len(rows) :
        /\ rows[i].email = email
        /\ \A j \in 1..Len(rows) :
            rows[j].email = email => rows[j].created_at >= rows[i].created_at}

\* The ids SELECT id, experiment_id FROM leads WHERE email = ? ORDER BY
\* created_at DESC LIMIT 1 may return: the rows of that email with the
\* greatest created_at (rows of the same second tie).
LatestLeadsByEmail(rows, email) ==
    {i \in 1..Len(rows) :
        /\ rows[i].email = email
        /\ \A j \in 1..Len(rows) :
            rows[j].email = email => rows[j].created_at <= rows[i].created_at}

\* The lead lookup by receipt_email.toLowerCase().trim().
HookFindLead(p) ==
    /\ hookReq[p].pc = "find_lead"
    /\ LET r == hookReq[p]
           event == Payloads[r.req.body]
           found == LatestLeadsByEmail(leads, trim(toLowerCase(event.receipt_email)))
       IN IF found = {}
          THEN hookReq' = [hookReq EXCEPT ![p].pc = "insert"]
          ELSE \E lead \in found :
                hookReq' = [hookReq EXCEPT
                    ![p].pc = "insert",
                    ![p].leadId = lead,
                    ![p].experimentId = IF r.experimentId # 0 THEN r.experimentId
                                        ELSE leads[lead].experiment_id]
    /\ UNCHANGED <<payments, leads, event_log, storeAccess, nonHookVars>>

\* Mutant: the table has no UNIQUE on stripe_payment_intent_id.
PaymentsUniqueViolation_None(rows, paymentIntentId) == FALSE

\* stripe_payment_intent_id TEXT UNIQUE NOT NULL
PaymentsUniqueViolation(rows, paymentIntentId) ==
    ExistingPayment(rows, paymentIntentId)

\* Mutant: payments.experiment_id may be NULL.
PaymentsNotNullViolation_Nullable(experimentId) == FALSE

\* experiment_id TEXT NOT NULL, bound to experimentId || null.
PaymentsNotNullViolation(experimentId) == experimentId = 0

\* experiment_id REFERENCES experiments(id), lead_id REFERENCES leads(id); a
\* NULL lead_id refers to nothing.
PaymentsForeignKeyViolation(exps, leadRows, experimentId, leadId) ==
    \/ experimentId # 0 /\ experimentId \notin DOMAIN exps
    \/ leadId # 0 /\ leadId \notin 1..Len(leadRows)

\* INSERT INTO payments: a constraint violation throws and the catch answers
\* 500 (the amounts of the payloads in use are positive); otherwise the row
\* is added and, without a lead, the delivery is acknowledged.
HookInsert(p) ==
    /\ hookReq[p].pc = "insert"
    /\ LET r == hookReq[p]
           event == Payloads[r.req.body]
       IN IF \/ PaymentsNotNullViolation(r.experimentId)
             \/ PaymentsUniqueViolation(payments, event.id)
             \/ PaymentsForeignKeyViolation(experiments, leads, r.experimentId, r.leadId)
          THEN /\ HookReply(p, r.req, r.leadId, r.experimentId,
                            HookError(500, "INTERNAL_ERROR"))
               /\ UNCHANGED payments
          ELSE /\ payments' = Append(payments,
                    [experiment_id |-> r.experimentId, lead_id |-> r.leadId,
                     stripe_payment_intent_id |-> event.id,
                     amount_cents |-> event.amount, status |-> "succeeded"])
               /\ IF r.leadId # 0
                  THEN hookReq' = [hookReq EXCEPT ![p].pc = "update_lead"]
                  ELSE HookReply(p, r.req, r.leadId, r.experimentId, HookReceived)
    /\ UNCHANGED <<leads, event_log, storeAccess, nonHookVars>>

\* UPDATE leads SET payment_status = ?, stripe_payment_id = ?,
\* payment_amount_cents = ? WHERE id = ?, then the acknowledgment.
HookUpdateLead(p) ==
    /\ hookReq[p].pc = "update_lead"
    /\ LET r == hookReq[p]
           event == Payloads[r.req.body]
       IN /\ leads' = [i \in 1..Len(leads) |->
                        IF i = r.leadId
                        THEN [leads[i] EXCEPT !.payment_status = "succeeded",
                                              !.stripe_payment_id = event.id,
                                              !.payment_amount_cents = event.amount]
                        ELSE leads[i]]
          /\ HookReply(p, r.req, r.leadId, r.experimentId, HookReceived)
    /\ UNCHANGED <<payments, event_log, storeAccess, nonHookVars>>

\* A statement of a request in flight fails in the store (D1 is unavailable
\* or times out): it throws, nothing is written and the catch answers 500.
HookStoreError(p) ==
    /\ hookReq[p].pc \notin {"idle", "done"}
    /\ LET r == hookReq[p] IN
        HookReply(p, r.req, r.leadId, r.experimentId, HookError(500, "INTERNAL_ERROR"))
    /\ UNCHANGED <<payments, leads, event_log, storeAccess, nonHookVars>>

\* ------------------------------------------------------------------ GET /experiments...

\* A row as SELECT * returns it.  Ids are the sequence numbers of
\* SC-2026-NNN; on three-digit ids the text order of the store is theirs.
ExperimentRecord(id, row) ==
    [id |-> id, name |-> row.name, slug |-> row.slug, status |-> row.status,
     archetype |-> row.archetype, max_spend_cents |-> row.max_spend_cents,
     copy_pack |-> row.copy_pack, stripe_price_id |-> row.stripe_price_id,
     price_cents |-> row.price_cents, created_at |-> row.created_at,
     launched_at |-> row.launched_at, decided_at |-> row.decided_at]

Digits == <<"0", "1", "2", "3", "4", "5", "6", "7", "8", "9">>
DigitValue(ch) == (CHOOSE d \in 1..10 : Digits[d] = ch) - 1

\* The leading digits of a text.
RECURSIVE DigitPrefix(_)
DigitPrefix(text) ==
    IF text # << >> /\ (\E d \in 1..10 : Digits[d] = Head(text))
    THEN <<Head(text)>> \o DigitPrefix(Tail(text))
    ELSE << >>

RECURSIVE DecimalValue(_)
DecimalValue(digits) ==
    IF digits = << >> THEN 0
    ELSE DecimalValue(SubSeq(digits, 1, Len(digits) - 1)) * 10
         + DigitValue(digits[Len(digits)])

\* Mutant: a text with anything after its digits is not a number.
parseInt_Strict(text) ==
    LET unsigned == IF text # << >> /\ Head(text) \in {"-", "+"} THEN Tail(text) ELSE text
        digits == DigitPrefix(unsigned)
    IN IF digits = << >> \/ digits # unsigned THEN [nan |-> TRUE, value |-> 0]
       ELSE [nan |-> FALSE,
             value |-> IF Head(text) = "-" THEN 0 - DecimalValue(digits)
                       ELSE DecimalValue(digits)]

\* parseInt(text, 10): leading white space is skipped, a sign is read, then
\* the digits up to the first other character; NaN when there is no digit.
parseInt(text) ==
    LET trimmed == trimStart(text)
        unsigned == IF trimmed # << >> /\ Head(trimmed) \in {"-", "+"}
                    THEN Tail(trimmed) ELSE trimmed
        digits == DigitPrefix(unsigned)
    IN IF digits = << >> THEN [nan |-> TRUE, value |-> 0]
       ELSE [nan |-> FALSE,
             value |-> IF Head(trimmed) = "-" THEN 0 - DecimalValue(digits)
                       ELSE DecimalValue(digits)]

DefaultLimit == 20
MaxLimit == 100

\* Mutant: a limit above the maximum is used as it is.
ListLimit_Unclamped(limitParam) ==
    IF limitParam = << >> THEN DefaultLimit
    ELSE LET parsedLimit == parseInt(limitParam) IN
         IF parsedLimit.nan \/ parsedLimit.value < 1 THEN 0
         ELSE parsedLimit.value

\* The limit of a list request: the default without the parameter, 0 for an
\* invalid parameter (the request is rejected), Math.min(parsedLimit, 100)
\* otherwise.
ListLimit(limitParam) ==
    IF limitParam = << >> THEN DefaultLimit
    ELSE LET parsedLimit == parseInt(limitParam) IN
         IF parsedLimit.nan \/ parsedLimit.value < 1 THEN 0
         ELSE IF parsedLimit.value < MaxLimit THEN parsedLimit.value ELSE MaxLimit

\* The ids of the rows matching the WHERE clauses (status = ?, id > ?).
ListMatches(exps, status, cursor) ==
    {id \in DOMAIN exps :
        /\ status = Absent \/ exps[id].status = status
        /\ cursor = 0 \/ id > cursor}

\* ORDER BY id ASC LIMIT n over a set of ids.
RECURSIVE FirstAscending(_, _)
FirstAscending(ids, n) ==
    IF ids = {} \/ n = 0 THEN << >>
    ELSE LET least == CHOOSE id \in ids : \A other \in ids : id <= other
         IN <<least>> \o FirstAscending(ids \ {least}, n - 1)

NoGetResponse == [http |-> 0, success |-> FALSE, code |-> "", data |-> << >>,
                  next_cursor |-> 0, has_more |-> FALSE]
GetError(http, code) == [NoGetResponse EXCEPT !.http = http, !.code = code]
GetSuccess(data, next_cursor, has_more) ==
    [http |-> 200, success |-> TRUE, code |-> "", data |-> data,
     next_cursor |-> next_cursor, has_more |-> has_more]

\* Mutant: next_cursor is the id of the extra row fetched.
ListResponse_CursorOfExtraRow(exps, status, limitParam, cursor) ==
    LET limit == ListLimit(limitParam) IN
    IF limit = 0 THEN GetError(400, "INVALID_REQUEST")
    ELSE LET fetched == FirstAscending(ListMatches(exps, status, cursor), limit + 1)
             hasMore == Len(fetched) > limit
             items == IF hasMore THEN SubSeq(fetched, 1, limit) ELSE fetched
         IN GetSuccess([i \in 1..Len(items) |-> ExperimentRecord(items[i], exps[items[i]])],
                       IF hasMore /\ Len(items) > 0 THEN fetched[Len(fetched)] ELSE 0,
                       hasMore)

\* The response of GET /experiments: data holds the items, next_cursor 0 is
\* null.
ListResponse(exps, status, limitParam, cursor) ==
    LET limit == ListLimit(limitParam) IN
    IF limit = 0 THEN GetError(400, "INVALID_REQUEST")
    ELSE LET fetched == FirstAscending(ListMatches(exps, status, cursor), limit + 1)
             hasMore == Len(fetched) > limit
             items == IF hasMore THEN SubSeq(fetched, 1, limit) ELSE fetched
         IN GetSuccess([i \in 1..Len(items) |-> ExperimentRecord(items[i], exps[items[i]])],
                       IF hasMore /\ Len(items) > 0 THEN items[Len(items)] ELSE 0,
                       hasMore)

\* Mutant: the internal spend limit is part of the public view.
SanitizedExperiment_Leaky(result) ==
    [id |-> result.id, name |-> result.name, slug |-> result.slug,
     status |-> result.status, archetype |-> result.archetype,
     copy_pack |-> result.copy_pack, created_at |-> result.created_at,
     max_spend_cents |-> result.max_spend_cents]

\* sanitizedExperiment: the public fields and, when the experiment is priced,
\* the pricing fields.
SanitizedExperiment(result) ==
    (IF result.price_cents # NoInt
     THEN [price_cents |-> result.price_cents] ELSE << >>)
    @@ (IF result.stripe_price_id \notin {Absent, ""}
        THEN [stripe_price_id |-> result.stripe_price_id] ELSE << >>)
    @@ [id |-> result.id, name |-> result.name, slug |-> result.slug,
        status |-> result.status, archetype |-> result.archetype,
        copy_pack |-> result.copy_pack, created_at |-> result.created_at]

\* The response of GET /experiments/by-slug/:slug (slug is UNIQUE).
BySlugResponse(exps, slug) ==
    LET found == {id \in DOMAIN exps :
                    exps[id].slug = slug /\ exps[id].status \in {"launch", "run"}}
    IN IF found = {} THEN GetError(404, "EXPERIMENT_NOT_FOUND")
       ELSE LET id == CHOOSE id \in found : TRUE
            IN GetSuccess(<<SanitizedExperiment(ExperimentRecord(id, exps[id]))>>, 0, FALSE)

\* A connection: the last read request (route and parameters) with its
\* response and, for a client that follows next_cursor, the ids of the items
\* of the pages it has received (walk).
IdleGet == [pc |-> "idle", route |-> "", status |-> Absent, limit |-> << >>,
            cursor |-> 0, slug |-> Absent, id |-> 0, resp |-> NoGetResponse,
            walk |-> << >>]

\* GET /experiments: the parameter check and the one SELECT.
ListExperiments(p, statuses, limits, cursors) ==
    /\ \E status \in statuses, limitParam \in limits, cursor \in cursors :
        /\ getReq' = [getReq EXCEPT ![p] =
                [pc |-> "done", route |-> "list", status |-> status,
                 limit |-> limitParam, cursor |-> cursor, slug |-> Absent, id |-> 0,
                 resp |-> ListResponse(experiments, status, limitParam, cursor),
                 walk |-> << >>]]
        /\ MarkStoreAccess("get", p, ListLimit(limitParam) # 0)
    /\ UNCHANGED nonGetVars

\* A client that pages through GET /experiments as SyncExperiments does: the
\* first request carries no cursor, each following one the next_cursor of the
\* response before it, with the same status and limit, while has_more is
\* true.
SyncExperiments(p, statuses, limits) ==
    /\ \/ \E status \in statuses, limitParam \in limits :
            LET resp == ListResponse(experiments, status, limitParam, 0) IN
            getReq' = [getReq EXCEPT ![p] =
                [pc |-> "done", route |-> "sync", status |-> status,
                 limit |-> limitParam, cursor |-> 0, slug |-> Absent, id |-> 0,
                 resp |-> resp,
                 walk |-> [i \in 1..Len(resp.data) |-> resp.data[i].id]]]
       \/ /\ getReq[p].route = "sync"
          /\ getReq[p].resp.has_more
          /\ LET r == getReq[p]
                 resp == ListResponse(experiments, r.status, r.limit, r.resp.next_cursor)
             IN getReq' = [getReq EXCEPT ![p] =
                    [r EXCEPT !.cursor = r.resp.next_cursor, !.resp = resp,
                              !.walk = @ \o [i \in 1..Len(resp.data) |-> resp.data[i].id]]]
    /\ MarkStoreAccess("get", p, TRUE)
    /\ UNCHANGED nonGetVars

\* GET /experiments/by-slug/:slug: one SELECT.
GetBySlug(p, slugs) ==
    /\ \E slug \in slugs :
        getReq' = [getReq EXCEPT ![p] =
            [IdleGet EXCEPT !.pc = "done", !.route = "by_slug", !.slug = slug,
                            !.resp = BySlugResponse(experiments, slug)]]
    /\ MarkStoreAccess("get", p, TRUE)
    /\ UNCHANGED nonGetVars

\* GET /experiments/:id: one SELECT.
GetById(p, ids) ==
    /\ \E id \in ids :
        getReq' = [getReq EXCEPT ![p] =
            [IdleGet EXCEPT !.pc = "done", !.route = "by_id", !.id = id,
                            !.resp =
                                IF id \notin DOMAIN experiments
                                THEN GetError(404, "EXPERIMENT_NOT_FOUND")
                                ELSE GetSuccess(<<ExperimentRecord(id, experiments[id])>>,
                                                0, FALSE)]]
    /\ MarkStoreAccess("get", p, TRUE)
    /\ UNCHANGED nonGetVars

\* ------------------------------------------------------------------ authMiddleware and routing

\* A path is the sequence of its segments: /experiments/by-slug/s1 is
\* <<"experiments", "by-slug", "s1">>.
\* PUBLIC_ROUTES (the OPTIONS entry is left out: the CORS middleware answers
\* preflight requests before authMiddleware runs).
PUBLIC_ROUTES ==
    <<[method |-> "POST", path |-> <<"leads">>],
      [method |-> "POST", path |-> <<"events">>],
      [method |-> "POST", path |-> <<"contact">>],
      [method |-> "GET", path |-> <<"experiments", "by-slug", ":slug">>],
      [method |-> "POST", path |-> <<"payments", "webhook">>],
      [method |-> "GET", path |-> <<"health">>]>>

\* route.path === path, or /^\/experiments\/by-slug\/[^/]+$/.test(path).
PathMatches(pattern, path) ==
    /\ Len(pattern) = Len(path)
    /\ \A i \in 1..Len(pattern) :
        IF pattern[i] \in {":slug", ":id"} THEN path[i] # "" ELSE pattern[i] = path[i]

\* Mutant: every route is public.
isPublicRoute_All(method, path) == TRUE

isPublicRoute(method, path) ==
    \E i \in 1..Len(PUBLIC_ROUTES) :
        /\ PUBLIC_ROUTES[i].method = method
        /\ PathMatches(PUBLIC_ROUTES[i].path, path)

\* c.env.SC_API_KEY
SC_API_KEY == "key_1"

NoHttpResponse == [http |-> 0, code |-> ""]

\* Mutant: any key is accepted.
authMiddleware_AnyKey(method, path, apiKey, expectedKey) ==
    IF isPublicRoute(method, path) THEN NoHttpResponse
    ELSE IF apiKey \in {Absent, ""} THEN [http |-> 401, code |-> "UNAUTHORIZED"]
    ELSE NoHttpResponse

\* authMiddleware: the 401 response, or NoHttpResponse when it calls next().
authMiddleware(method, path, apiKey, expectedKey) ==
    IF isPublicRoute(method, path) THEN NoHttpResponse
    ELSE IF apiKey \in {Absent, ""} THEN [http |-> 401, code |-> "UNAUTHORIZED"]
    ELSE IF apiKey # expectedKey THEN [http |-> 401, code |-> "UNAUTHORIZED"]
    ELSE NoHttpResponse

\* The routes of the app in the order of their registration; the first whose
\* method and path match handles the request.
Routes ==
    <<[method |-> "GET", path |-> <<"health">>, handler |-> "health"],
      [method |-> "POST", path |-> <<"leads">>, handler |-> "leads"],
      [method |-> "POST", path |-> <<"events">>, handler |-> "events"],
      [method |-> "GET", path |-> <<"experiments">>, handler |-> "list"],
      [method |-> "GET", path |-> <<"experiments", "by-slug", ":slug">>,
       handler |-> "by_slug"],
      [method |-> "GET", path |-> <<"experiments", ":id">>, handler |-> "by_id"],
      [method |-> "POST", path |-> <<"experiments">>, handler |-> "create"],
      [method |-> "PATCH", path |-> <<"experiments", ":id">>, handler |-> "patch"],
      [method |-> "POST", path |-> <<"payments", "webhook">>, handler |-> "webhook"]>>

\* The handler of a request; "not_found" for app.notFound.
RouteHandler(method, path) ==
    LET hits == {i \in 1..Len(Routes) :
                    Routes[i].method = method /\ PathMatches(Routes[i].path, path)}
    IN IF hits = {} THEN "not_found"
       ELSE Routes[CHOOSE i \in hits : \A j \in hits : i <= j].handler

\* A request arrives on connection p and passes through authMiddleware: it is
\* answered 401, or handed on (pc "next") to the router.
AuthMiddleware(p) ==
    /\ patchReq[p].pc \in {"idle", "done"}
    /\ leadReq[p].pc \in {"idle", "done"}
    /\ eventReq[p].pc \in {"idle", "done"}
    /\ hookReq[p].pc \in {"idle", "done"}
    /\ \E line \in ({[method |-> "GET", path |-> <<"health">>],
                     [method |-> "POST", path |-> <<"leads">>],
                     [method |-> "POST", path |-> <<"events">>],
                     [method |-> "POST", path |-> <<"contact">>],
                     [method |-> "GET", path |-> <<"experiments">>],
                     [method |-> "GET", path |-> <<"experiments", "by-slug", "s1">>],
                     [method |-> "GET", path |-> <<"experiments", "by-slug">>],
                     [method |-> "GET", path |-> <<"experiments", "1">>],
                     [method |-> "POST", path |-> <<"experiments">>],
                     [method |-> "PATCH", path |-> <<"experiments", "1">>],
                     [method |-> "POST", path |-> <<"payments", "webhook">>],
                     [method |-> "PATCH", path |-> <<"leads">>]}), apiKey \in ({Absent, SC_API_KEY, "key_2"}) :
        LET resp == authMiddleware(line.method, line.path, apiKey, SC_API_KEY) IN
        httpReq' = [httpReq EXCEPT ![p] =
            [pc |-> IF resp = NoHttpResponse THEN "next" ELSE "done",
             method |-> line.method, path |-> line.path, apiKey |-> apiKey,
             resp |-> resp]]
    /\ UNCHANGED <<now, experiments, patchReq, leads, leadReq, event_log, eventReq,
                   payments, hookReq, getReq, storeAccess, createReq>>

\* authMiddleware handed the request of connection p on to this handler.
Routed(p, handler) ==
    /\ httpReq[p].pc = "next"
    /\ RouteHandler(httpReq[p].method, httpReq[p].path) = handler

\* GET /health and app.notFound answer without the store.
AnswerDirectly(p) ==
    /\ \/ Routed(p, "health") /\ httpReq' = [httpReq EXCEPT ![p].pc = "done",
                                                           ![p].resp = [http |-> 200, code |-> ""]]
       \/ Routed(p, "not_found") /\ httpReq' = [httpReq EXCEPT ![p].pc = "done",
                                                              ![p].resp = [http |-> 404, code |-> "NOT_FOUND"]]
    /\ UNCHANGED <<now, experiments, patchReq, leads, leadReq, event_log, eventReq,
                   payments, hookReq, getReq, storeAccess, createReq>>

\* The id segment of /experiments/:id as an experiment id.
PathId(path) == IF path[Len(path)] = "1" THEN 1 ELSE 2

\* ------------------------------------------------------------------ POST /experiments

\* Experiment ids are their sequence numbers: n stands for SC-2026-<n padded
\* to three digits>; every id is of the current year.
RECURSIVE SequenceDigits(_)
SequenceDigits(n) ==
    IF n < 10 THEN <<Digits[n + 1]>>
    ELSE SequenceDigits(n \div 10) \o <<Digits[(n % 10) + 1]>>

\* String(sequenceNumber).padStart(3, '0')
padStart3(digits) ==
    IF Len(digits) >= 3 THEN digits
    ELSE IF Len(digits) = 2 THEN <<"0">> \o digits
    ELSE <<"0", "0">> \o digits

\* The order of ORDER BY id on texts with a common prefix: character by
\* character, a proper prefix first.
RECURSIVE TextLess(_, _)
TextLess(a, b) ==
    IF a = << >> THEN b # << >>
    ELSE IF b = << >> THEN FALSE
    ELSE IF Head(a) = Head(b) THEN TextLess(Tail(a), Tail(b))
    ELSE DigitValue(Head(a)) < DigitValue(Head(b))

\* generateExperimentId: SELECT id ... ORDER BY id DESC LIMIT 1, then the
\* sequence number parsed from it plus one, or 1 for an empty table.
generateExperimentId(exps) ==
    IF DOMAIN exps = {} THEN 1
    ELSE LET top == CHOOSE id \in DOMAIN exps :
                        \A other \in DOMAIN exps :
                            ~TextLess(padStart3(SequenceDigits(id)),
                                      padStart3(SequenceDigits(other)))
         IN parseInt(padStart3(SequenceDigits(top))).value + 1

\* Bodies of POST /experiments: complete ones with the slugs s1..s3, one
\* without each required field and one with an archetype outside the list.
CreateBodies ==
    {[name |-> "n1", slug |-> slug, archetype |-> "waitlist"] : slug \in {"s1", "s2", "s3"}}
    \cup {[name |-> Absent, slug |-> "s2", archetype |-> "waitlist"],
          [name |-> "n1", slug |-> Absent, archetype |-> "presale"],
          [name |-> "n1", slug |-> "s2", archetype |-> Absent],
          [name |-> "n1", slug |-> "s2", archetype |-> "bogus"]}

CreateReply(p, body, id, resp) ==
    createReq' = [createReq EXCEPT ![p] =
        [pc |-> "done", body |-> body, id |-> id, resp |-> resp]]

\* The required-field and archetype checks and, for a body that passes them,
\* the SELECT of generateExperimentId.
CreateStart(p, bodies) ==
    /\ createReq[p].pc \in {"idle", "done"}
    /\ \E body \in bodies :
        IF body.name = Absent \/ body.slug = Absent \/ body.archetype = Absent
        THEN CreateReply(p, body, 0, ErrorResponse(400, "INVALID_REQUEST"))
        ELSE IF body.archetype \notin ({"waitlist", "priced_waitlist", "presale", "service_pilot", "content_magnet",
                                        "concierge", "interview"})
        THEN CreateReply(p, body, 0, ErrorResponse(400, "INVALID_REQUEST"))
        ELSE createReq' = [createReq EXCEPT ![p] =
                [pc |-> "insert", body |-> body, id |-> generateExperimentId(experiments),
                 resp |-> NoResponse]]
    /\ UNCHANGED <<experiments, nonCreateVars>>

\* The row POST /experiments inserts: status draft, no lifecycle timestamps.
NewExperiment(name, slug, t) ==
    [slug |-> slug, name |-> name, status |-> "draft", archetype |-> "waitlist",
     max_spend_cents |-> NoInt, copy_pack |-> Absent,
     stripe_price_id |-> Absent, price_cents |-> NoInt,
     created_at |-> StoreNow(t), launched_at |-> NoTime, decided_at |-> NoTime]

\* Mutant: the catch maps every uniqueness violation to 409 DUPLICATE_SLUG.
CreateErrorResponse_AnyUnique(idTaken, slugTaken) ==
    {ErrorResponse(409, "DUPLICATE_SLUG")}

\* Mutant: the catch has no DUPLICATE_SLUG branch.
CreateErrorResponse_NoBranch(idTaken, slugTaken) ==
    {ErrorResponse(500, "INTERNAL_ERROR")}

\* The responses of the catch to a failed INSERT: 409 DUPLICATE_SLUG when
\* the message names a UNIQUE constraint and slug, 500 otherwise.  The
\* message names the constraint on slug or the one on id; when both are
\* violated it names either.
CreateErrorResponse(idTaken, slugTaken) ==
    (IF slugTaken THEN {ErrorResponse(409, "DUPLICATE_SLUG")} ELSE {})
    \cup (IF idTaken THEN {ErrorResponse(500, "INTERNAL_ERROR")} ELSE {})

\* INSERT INTO experiments (id, name, slug, archetype, status): id is the
\* PRIMARY KEY and slug is UNIQUE.
CreateInsert(p) ==
    /\ createReq[p].pc = "insert"
    /\ LET r == createReq[p]
           idTaken == r.id \in DOMAIN experiments
           slugTaken == SlugUniqueViolation(experiments, r.id, r.body.slug)
       IN IF idTaken \/ slugTaken
          THEN /\ \E resp \in CreateErrorResponse(idTaken, slugTaken) :
                    CreateReply(p, r.body, r.id, resp)
               /\ UNCHANGED experiments
          ELSE /\ Cardinality(DOMAIN experiments) < MaxExperiments
               /\ experiments' =
                    experiments @@
                    (r.id :> [NewExperiment(r.body.name, r.body.slug, now) EXCEPT
                                !.archetype = r.body.archetype])
               /\ createReq' = [createReq EXCEPT ![p].pc = "fetch"]
    /\ UNCHANGED nonCreateVars

\* SELECT * FROM experiments WHERE id = ? and the 201 response.
CreateFetch(p) ==
    /\ createReq[p].pc = "fetch"
    /\ CreateReply(p, createReq[p].body, createReq[p].id, SuccessResponse(201))
    /\ UNCHANGED <<experiments, nonCreateVars>>

\* ------------------------------------------------------------------ clock

Tick ==
    /\ now < StartTime + MaxTicks
    /\ now' = now + 1
    /\ UNCHANGED <<experiments, patchReq, leads, leadReq, event_log, eventReq,
                   payments, hookReq, getReq, httpReq, storeAccess, createReq>>

\* Time passes up to a later instant.
Advance ==
    /\ \E t \in ({StartTime + 500, StartTime + FiveMinutes - 1, StartTime + FiveMinutes,
                  StartTime + FiveMinutes + 1, StartTime + FiveMinutes + 501}) : t > now /\ now' = t
    /\ UNCHANGED <<experiments, patchReq, leads, leadReq, event_log, eventReq,
                   payments, hookReq, getReq, httpReq, storeAccess, createReq>>

\* ------------------------------------------------------------------ specification

\* No request has been sent on any connection of the routes below.
IdleConnections ==
    /\ hookReq = [p \in Procs |-> ([pc |-> "idle", req |-> HookRequest("other", "missing", NoSecret),
                                    leadId |-> 0, experimentId |-> 0, redelivery |-> FALSE,
                                    resp |-> NoHookResponse])]
    /\ getReq = [p \in Procs |-> IdleGet]
    /\ httpReq = [p \in Procs |-> ([pc |-> "idle", method |-> "GET", path |-> <<"health">>, apiKey |-> Absent,
                                    resp |-> NoHttpResponse])]
    /\ storeAccess = ([route \in {"patch", "lead", "event", "hook", "get"} |-> [p \in Procs |-> FALSE]])
    /\ createReq = [p \in Procs |-> ([pc |-> "idle",
                                      body |-> [name |-> Absent, slug |-> Absent, archetype |-> Absent],
                                      id |-> 0, resp |-> NoResponse])]

\* The store after one POST /experiments.
Init ==
    /\ now = StartTime
    /\ experiments = (1 :> NewExperiment("n0", "s1", StartTime))
    /\ patchReq = [p \in Procs |-> IdlePatch]
    /\ leads = << >>
    /\ leadReq = [p \in Procs |-> IdleLead]
    /\ event_log = << >>
    /\ eventReq = [p \in Procs |-> IdleEvent]
    /\ payments = << >>
    /\ IdleConnections

Next ==
    \/ Tick
    \/ \E p \in Procs : PatchRead(p, ExpIds, ([status : Statuses \cup {Absent}, name : {Absent}, slug : {Absent},
                                               other : {Absent}]))
    \/ \E p \in Procs : PatchUpdate(p)
    \/ \E p \in Procs : PatchFetch(p)

Spec == Init /\ [][Next]_vars

\* Lead intake: SC-2026-001 has been launched (a create and the patches
\* draft -> preflight -> build -> launch); SC-2026-002 does not exist.
InitLeads ==
    /\ now = StartTime
    /\ experiments = (1 :> [NewExperiment("n0", "s1", StartTime) EXCEPT
                               !.status = "launch", !.launched_at = StartTime])
    /\ patchReq = [p \in Procs |-> IdlePatch]
    /\ leads = << >>
    /\ leadReq = [p \in Procs |-> IdleLead]
    /\ event_log = << >>
    /\ eventReq = [p \in Procs |-> IdleEvent]
    /\ payments = << >>
    /\ IdleConnections

NextLeads ==
    \/ \E p \in Procs : LeadGate(p, ([experiment_id : ExpIds, email : Emails, hp_field : ({<< >>, <<" ">>, <<"x">>})]
                                     \cup {[experiment_id |-> 0, email |-> <<"a", "@">>, hp_field |-> << >>],
                                           [experiment_id |-> 1, email |-> << >>, hp_field |-> <<"x">>]}))
    \/ \E p \in Procs : LeadInsert(p)
    \/ PatchRead(1, {1}, ([status : {"run", "archive"}, name : {Absent}, slug : {Absent},
                           other : {Absent}]))
    \/ PatchUpdate(1)
    \/ PatchFetch(1)

SpecLeads == InitLeads /\ [][NextLeads]_vars

NextEventData ==
    \/ \E p \in Procs : EventCheck(p, (LET plain == [experiment_id |-> Absent, event_type |-> "page_view", session_id |-> Absent,
                                                     event_data |-> [kind |-> "absent", pairs |-> << >>, literal |-> ""],
                                                     visitor_id |-> "v1", user_agent |-> "ua1"]
                                       IN {plain, [plain EXCEPT !.session_id = ""], [plain EXCEPT !.session_id = "s1"],
                                           [plain EXCEPT !.experiment_id = ""], [plain EXCEPT !.event_type = Absent]}
                                          \cup {[plain EXCEPT !.event_data = [kind |-> "scalar", pairs |-> << >>, literal |-> lit]] :
                                                   lit \in {"\"\"", "0", "false", "\"x\""}}
                                          \cup {[plain EXCEPT !.event_data = ObjectData(<< >>)]}))
    \/ \E p \in Procs : EventInsert(p)

\* Event ingestion with present and absent values, the clock standing still.
SpecEventData == Init /\ [][NextEventData]_vars

NextEvents ==
    \/ Advance
    \/ \E p \in Procs : EventCheck(p, EventBodies)
    \/ \E p \in Procs : EventInsert(p)

\* Event ingestion starts from the same store as Spec.
SpecEvents == Init /\ [][NextEvents]_vars

\* Webhook deliveries: SC-2026-001 has been launched and has one lead,
\* a@ (lead 1).
InitHook ==
    /\ now = StartTime
    /\ experiments = (1 :> [NewExperiment("n0", "s1", StartTime) EXCEPT
                               !.status = "launch", !.launched_at = StartTime])
    /\ patchReq = [p \in Procs |-> IdlePatch]
    /\ leads = <<LeadRow(1, <<"a", "@">>, StartTime)>>
    /\ leadReq = [p \in Procs |-> IdleLead]
    /\ event_log = << >>
    /\ eventReq = [p \in Procs |-> IdleEvent]
    /\ payments = << >>
    /\ IdleConnections

\* Stripe delivers one webhook after the other.
NextHookSeq ==
    \/ HookReceive(1, (Deliveries(IntentBodies)
                       \cup {HookRequest("pi1_meta", shape, secret) :
                               shape \in (DOMAIN SignatureHeaders("pi1_meta")), secret \in ({NoSecret, WebhookSecret})}))
    \/ HookFindLead(1)
    \/ HookInsert(1)
    \/ HookUpdateLead(1)

SpecHookSeq == InitHook /\ [][NextHookSeq]_vars

\* Correctly signed deliveries arrive concurrently.
NextHook ==
    \/ \E p \in Procs : HookReceive(p, Deliveries(IntentBodies))
    \/ \E p \in Procs : HookFindLead(p)
    \/ \E p \in Procs : HookInsert(p)
    \/ \E p \in Procs : HookUpdateLead(p)

SpecHook == InitHook /\ [][NextHook]_vars

\* SC-2026-001 and SC-2026-002 have been launched; a@ is a lead of both
\* (leads 1 and 2, the second created at secondAt) and c@ of the first
\* (lead 3).
HookStore(secondAt) ==
    /\ now = StartTime + 1000
    /\ experiments =
        (1 :> [NewExperiment("n0", "s1", StartTime) EXCEPT
                 !.status = "launch", !.launched_at = StartTime])
        @@ (2 :> [NewExperiment("n0", "s2", StartTime) EXCEPT
                    !.status = "launch", !.launched_at = StartTime])
    /\ patchReq = [p \in Procs |-> IdlePatch]
    /\ leads = <<LeadRow(1, <<"a", "@">>, StartTime),
                 LeadRow(2, <<"a", "@">>, secondAt),
                 LeadRow(1, <<"c", "@">>, StartTime + 1000)>>
    /\ leadReq = [p \in Procs |-> IdleLead]
    /\ event_log = << >>
    /\ eventReq = [p \in Procs |-> IdleEvent]
    /\ payments = << >>
    /\ IdleConnections

\* The second lead of a@ was created in the second of the first or a
\* second later.
InitHookLeads == \E secondAt \in {StartTime, StartTime + 1000} : HookStore(secondAt)

\* Deliveries of every event type, one after the other.
NextHookEvents ==
    \/ HookReceive(1, Deliveries(({"pi1_meta", "pi2_email", "failed_pi1", "refund_pi1", "refund_none", "dispute_pi1",
                                   "other"})))
    \/ HookFindLead(1)
    \/ HookInsert(1)
    \/ HookUpdateLead(1)
    \/ HookRefundLeads(1)
    \/ HookLogDispute(1)

SpecHookEvents == InitHookLeads /\ [][NextHookEvents]_vars

\* payment_intent.succeeded deliveries, one after the other.
NextHookLeads ==
    \/ HookReceive(1, Deliveries({"pi2_email", "pi3_none", "pi4_both", "pi5_exp", "pi6_ghost",
                                  "pi7_cross"}))
    \/ HookFindLead(1)
    \/ HookInsert(1)
    \/ HookUpdateLead(1)

SpecHookLeads == InitHookLeads /\ [][NextHookLeads]_vars

\* payment_intent.succeeded deliveries, one after the other, while
\* statements may fail in the store.
NextHookRetry ==
    \/ HookReceive(1, Deliveries({"pi1_meta", "pi2_email", "pi5_exp"}))
    \/ HookFindLead(1)
    \/ HookInsert(1)
    \/ HookUpdateLead(1)
    \/ HookStoreError(1)

SpecHookRetry == HookStore(StartTime + 1000) /\ [][NextHookRetry]_vars

\* Stripe delivers payment_intent.succeeded on one connection and
\* charge.refunded for pi_1 on the other, in any order and any number of
\* times.
NextHookOrder ==
    \/ HookReceive(1, Deliveries({"pi1_meta", "pi2_email"}))
    \/ HookFindLead(1)
    \/ HookInsert(1)
    \/ HookUpdateLead(1)
    \/ HookReceive(2, Deliveries({"refund_pi1"}))
    \/ HookRefundLeads(2)

SpecHookOrder == HookStore(StartTime + 1000) /\ [][NextHookOrder]_vars

\* Creations on both connections and, on one connection, patches of the slug
\* of SC-2026-001 and SC-2026-002.
NextCreate ==
    \/ \E p \in Procs : CreateStart(p, CreateBodies)
    \/ \E p \in Procs : CreateInsert(p)
    \/ \E p \in Procs : CreateFetch(p)
    \/ PatchRead(1, ExpIds, SlugBodies)
    \/ PatchUpdate(1)
    \/ PatchFetch(1)

SpecCreate == Init /\ [][NextCreate]_vars

\* The store holds one experiment: SC-2026-001 as in Init, or SC-2026-998.
InitCreate ==
    /\ now = StartTime
    /\ experiments \in {1 :> NewExperiment("n0", "s1", StartTime),
                        998 :> NewExperiment("n0", "s0", StartTime)}
    /\ patchReq = [p \in Procs |-> IdlePatch]
    /\ leads = << >>
    /\ leadReq = [p \in Procs |-> IdleLead]
    /\ event_log = << >>
    /\ eventReq = [p \in Procs |-> IdleEvent]
    /\ payments = << >>
    /\ IdleConnections

\* Creations, patches of the slug of SC-2026-001 and SC-2026-002 and patches
\* of the status of SC-2026-002, one request after the other.
NextCreateSeq ==
    \/ CreateStart(1, CreateBodies)
    \/ CreateInsert(1)
    \/ CreateFetch(1)
    \/ PatchRead(1, ExpIds, SlugBodies)
    \/ PatchRead(1, {2}, [status : Statuses, name : {Absent}, slug : {Absent}, other : {Absent}])
    \/ PatchUpdate(1)
    \/ PatchFetch(1)

SpecCreateSeq == Init /\ [][NextCreateSeq]_vars

\* The same requests on a store that holds SC-2026-001 or SC-2026-998.
SpecCreateHigh == InitCreate /\ [][NextCreateSeq]_vars

\* PATCH with every kind of body, one request after the other; other is a key
\* of the body outside updatableFields, sent with the value 1.
NextPatchFields ==
    \/ PatchRead(1, ExpIds, ([status : (Statuses \cup {Absent, "bogus"}), name : {Absent, "n1"}, slug : {Absent},
                              other : {Absent, "x", "id", "created_at", "launched_at",
                                       "decided_at"}]))
    \/ PatchUpdate(1)
    \/ PatchFetch(1)

SpecPatchFields == Init /\ [][NextPatchFields]_vars

InitRead ==
    /\ now = StartTime
    /\ experiments \in ({[id \in 1..3 |->
                            [NewExperiment("n0", (<<"s1", "s2", "s3">>)[id], StartTime) EXCEPT
                                !.status = status[id],
                                !.price_cents = IF id = 1 THEN price ELSE NoInt,
                                !.stripe_price_id = IF id = 1 THEN priceId ELSE Absent,
                                !.max_spend_cents = IF id = 1 THEN 5 ELSE NoInt,
                                !.launched_at = IF status[id] = "draft" THEN NoTime ELSE StartTime]] :
                            status \in {st \in [1..3 -> Statuses] : \A id \in 1..3 : st[id] \in {"draft", (<<"launch", "run", "launch">>)[id]}},
                            price \in {NoInt, 0}, priceId \in {Absent, "", "price_1"}})
    /\ patchReq = [p \in Procs |-> IdlePatch]
    /\ leads = << >>
    /\ leadReq = [p \in Procs |-> IdleLead]
    /\ event_log = << >>
    /\ eventReq = [p \in Procs |-> IdleEvent]
    /\ payments = << >>
    /\ IdleConnections

NextRead ==
    \/ ListExperiments(1, ({Absent, "draft", "launch"}), ({<< >>, <<"0">>, <<"1">>, <<"2">>, <<"-", "1">>, <<"x">>,
                                                           <<"2", "x">>, <<" ", "1">>, <<"1", "0", "0">>, <<"1", "0", "1">>}), (0..3))
    \/ SyncExperiments(1, {Absent, "draft", "launch"}, {<<"1">>, <<"2">>, << >>})
    \/ GetBySlug(1, {"s1", "s2", "s9"})
    \/ GetById(1, {1, 4})

SpecRead == InitRead /\ [][NextRead]_vars

\* Requests through authMiddleware on one connection, each route with one
\* request of its kind.
NextAuth ==
    \/ AuthMiddleware(1)
    \/ AnswerDirectly(1)
    \/ Routed(1, "patch")
        /\ PatchRead(1, {PathId(httpReq[1].path)},
                     {[status |-> "run", name |-> Absent, slug |-> Absent,
                       other |-> Absent]})
    \/ PatchUpdate(1)
    \/ PatchFetch(1)
    \/ Routed(1, "list") /\ ListExperiments(1, {Absent}, {<< >>}, {0})
    \/ Routed(1, "by_slug") /\ GetBySlug(1, {httpReq[1].path[3]})
    \/ Routed(1, "by_id") /\ GetById(1, {PathId(httpReq[1].path)})
    \/ Routed(1, "leads")
        /\ LeadGate(1, {[experiment_id |-> 1, email |-> <<"b", "@">>, hp_field |-> << >>]})
    \/ LeadInsert(1)
    \/ Routed(1, "events") /\ EventCheck(1, {BaseEvent})
    \/ EventInsert(1)
    \/ Routed(1, "webhook")
        /\ HookReceive(1, {HookRequest("pi1_meta", "valid", WebhookSecret)})
    \/ HookInsert(1)
    \/ HookUpdateLead(1)

SpecAuth == InitHook /\ [][NextAuth]_vars

\* ------------------------------------------------------------------ claims: state machine

\* p takes its last step (the response is sent) in this transition.
PatchDoneStep(p) == patchReq[p].pc # "done" /\ patchReq'[p].pc = "done"
PatchDoneFromIdle(p) == patchReq'[p] # patchReq[p] /\ patchReq'[p].pc = "done"
\* p executes its UPDATE in this transition.
PatchUpdateStep(p) == patchReq[p].pc = "update" /\ patchReq'[p].pc = "fetch"

\* The transition table as the specification states it.
TransitionTable ==
    [draft     |-> {"preflight", "archive"},
     preflight |-> {"build", "draft", "archive"},
     build     |-> {"launch", "preflight", "archive"},
     launch    |-> {"run", "archive"},
     run       |-> {"decide", "archive"},
     decide    |-> {"archive"},
     archive   |-> {}]

\* C1: a PATCH that names a status succeeds (200) when the requested status is
\* the status of the row it read or an allowed next status of it in the
\* transition table, and otherwise is answered 400 INVALID_STATUS_TRANSITION
\* in a step that leaves the experiments table unchanged.
C1_StateMachineSoundness ==
    [][\A p \in Procs :
        (/\ PatchDoneFromIdle(p)
         /\ patchReq'[p].currentStatus \in Statuses
         /\ patchReq'[p].body.status \in Statuses)
        => LET r == patchReq'[p] IN
           IF r.body.status = r.currentStatus
              \/ r.body.status \in TransitionTable[r.currentStatus]
           THEN r.resp.http = 200 /\ r.resp.success
           ELSE /\ r.resp.http = 400
                /\ r.resp.code = "INVALID_STATUS_TRANSITION"
                /\ ~r.resp.success
                /\ experiments' = experiments]_vars

\* C1 witness: one request was refused for its transition, another, changing
\* the status, succeeded.
C1_Witness ==
    \E p, q \in Procs :
        /\ patchReq[p].pc = "done"
        /\ patchReq[p].resp.code = "INVALID_STATUS_TRANSITION"
        /\ patchReq[q].pc = "done"
        /\ patchReq[q].resp.http = 200
        /\ patchReq[q].body.status \in Statuses \ {patchReq[q].currentStatus}

\* C2: every change of an experiment's stored status goes from a status to one
\* of its allowed next statuses; in particular the status of an archived
\* experiment never changes.
C2_StoredStatusFollowsTable ==
    [][\A id \in DOMAIN experiments :
        experiments'[id].status # experiments[id].status
        => experiments'[id].status \in TransitionTable[experiments[id].status]]_vars

\* C3: the UPDATE of a request that read build and asks for launch leaves
\* launched_at non-null, and the UPDATE of a request that read launch and asks
\* for launch does not change launched_at; the same for run -> decide,
\* decide -> decide and decided_at.
C3_TimestampStamping ==
    [][\A p \in Procs :
        PatchUpdateStep(p)
        => LET r == patchReq[p] IN
           /\ (r.currentStatus = "build" /\ r.body.status = "launch")
                => experiments'[r.id].launched_at # NoTime
           /\ (r.currentStatus = "launch" /\ r.body.status = "launch")
                => experiments'[r.id].launched_at = experiments[r.id].launched_at
           /\ (r.currentStatus = "run" /\ r.body.status = "decide")
                => experiments'[r.id].decided_at # NoTime
           /\ (r.currentStatus = "decide" /\ r.body.status = "decide")
                => experiments'[r.id].decided_at = experiments[r.id].decided_at]_vars

\* C3 witness: a no-op launch -> launch update has been applied to a launched
\* experiment whose launched_at was stamped at an earlier time.
C3_Witness ==
    \E p \in Procs :
        /\ patchReq[p].pc = "fetch"
        /\ patchReq[p].currentStatus = "launch"
        /\ patchReq[p].body.status = "launch"
        /\ experiments[patchReq[p].id].launched_at # NoTime
        /\ experiments[patchReq[p].id].launched_at < now

\* C4: once launched_at (decided_at) of an experiment is non-null it never
\* changes.
C4_StampedOnce ==
    [][\A id \in DOMAIN experiments :
        /\ experiments[id].launched_at # NoTime
             => experiments'[id].launched_at = experiments[id].launched_at
        /\ experiments[id].decided_at # NoTime
             => experiments'[id].decided_at = experiments[id].decided_at]_vars

\* ------------------------------------------------------------------ claims: lead intake

\* p sends a request and runs its first step (up to the gate) in this transition.
LeadGateStep(p) == leadReq[p].pc \in {"idle", "done"} /\ leadReq'[p] # leadReq[p]
\* p executes its INSERT in this transition.
LeadInsertStep(p) == leadReq[p].pc = "insert" /\ leadReq'[p].pc = "done"

\* lower(trim(email)) of the submitted emails, as the specification's example
\* gives it ("Test@Example.COM " is stored as "test@example.com").
LowerTrimmed ==
    (<<"a", "@">> :> <<"a", "@">>) @@ (<<" ", "A", "@", " ">> :> <<"a", "@">>)
        @@ (<<"b", "@">> :> <<"b", "@">>)

\* A text with a character other than white space.
NonBlank(text) == \E i \in 1..Len(text) : text[i] # " "

HasLead(rows, experiment_id, email) ==
    \E i \in 1..Len(rows) :
        rows[i].experiment_id = experiment_id /\ rows[i].email = email

\* C5: no two lead rows share (experiment_id, email) and every stored email is
\* lower(trim(submitted email)); an INSERT step whose normalized
\* (experiment_id, email) already has a row is answered 409 DUPLICATE_LEAD and
\* leaves the table as it is, any other INSERT step appends exactly the
\* normalized row and is answered 201.
C5_LeadUniqueness ==
    [][/\ \A i, j \in 1..Len(leads') :
            (leads'[i].experiment_id = leads'[j].experiment_id
             /\ leads'[i].email = leads'[j].email) => i = j
       /\ \A i \in 1..Len(leads') :
            \E e \in Emails : leads'[i].email = LowerTrimmed[e]
       /\ \A p \in Procs :
            LeadInsertStep(p)
            => LET b == leadReq[p].body IN
               IF HasLead(leads, b.experiment_id, LowerTrimmed[b.email])
               THEN /\ leadReq'[p].resp.http = 409
                    /\ leadReq'[p].resp.code = "DUPLICATE_LEAD"
                    /\ leads' = leads
               ELSE /\ leadReq'[p].resp.http = 201
                    /\ Len(leads') = Len(leads) + 1
                    /\ SubSeq(leads', 1, Len(leads)) = leads
                    /\ leads'[Len(leads')].experiment_id = b.experiment_id
                    /\ leads'[Len(leads')].email = LowerTrimmed[b.email]]_vars

\* C5 witness: the padded upper-case spelling of a stored email was refused as
\* a duplicate while a second email has its own row.
C5_Witness ==
    /\ Len(leads) = 2
    /\ \E p \in Procs :
        /\ leadReq[p].pc = "done"
        /\ leadReq[p].body.email = <<" ", "A", "@", " ">>
        /\ leadReq[p].resp.code = "DUPLICATE_LEAD"
        /\ HasLead(leads, leadReq[p].body.experiment_id, <<"a", "@">>)

\* C6: a lead row is inserted only while the owning experiment's stored status
\* is launch or run.
C6_InsertOnlyWhileAccepting ==
    [][Len(leads') > Len(leads)
        => LET row == leads'[Len(leads')] IN
           /\ row.experiment_id \in DOMAIN experiments
           /\ experiments[row.experiment_id].status \in {"launch", "run"}]_vars

\* C7: a submission with the required fields and a non-blank honeypot, for an
\* experiment in launch or run, is answered at once with 201, success, a lead
\* id below 1000000, the experiment id and the experiment's slug, and the
\* leads table is unchanged.
C7_HoneypotStealth ==
    [][\A p \in Procs :
        (/\ LeadGateStep(p)
         /\ leadReq'[p].body.email # << >>
         /\ leadReq'[p].body.experiment_id \in DOMAIN experiments
         /\ experiments[leadReq'[p].body.experiment_id].status \in {"launch", "run"}
         /\ NonBlank(leadReq'[p].body.hp_field))
        => LET r == leadReq'[p] IN
           /\ r.pc = "done"
           /\ r.resp.http = 201
           /\ r.resp.success
           /\ r.resp.lead_id \in 0..999999
           /\ r.resp.experiment_id = r.body.experiment_id
           /\ r.resp.slug = experiments[r.body.experiment_id].slug
           /\ leads' = leads]_vars

\* C7 witness: a honeypot submission repeating a stored lead's email got 201
\* with a fake lead id.
C7_Witness ==
    \E p \in Procs :
        /\ leadReq[p].pc = "done"
        /\ NonBlank(leadReq[p].body.hp_field)
        /\ leadReq[p].resp.http = 201
        /\ leadReq[p].resp.lead_id = 999999
        /\ HasLead(leads, leadReq[p].body.experiment_id, LowerTrimmed[leadReq[p].body.email])

\* C8: a submission with the required fields that names a missing experiment
\* or one outside launch/run is answered 404 EXPERIMENT_NOT_FOUND and writes
\* nothing, with a non-blank honeypot exactly as without one.
C8_GateBeforeHoneypot ==
    [][\A p \in Procs :
        (/\ LeadGateStep(p)
         /\ leadReq'[p].body.email # << >>
         /\ leadReq'[p].body.experiment_id # 0
         /\ \/ leadReq'[p].body.experiment_id \notin DOMAIN experiments
            \/ experiments[leadReq'[p].body.experiment_id].status \notin {"launch", "run"})
        => /\ leadReq'[p].pc = "done"
           /\ leadReq'[p].resp = LeadError(404, "EXPERIMENT_NOT_FOUND")
           /\ leads' = leads]_vars

\* C8 witness: a honeypot submission for the archived experiment and one for
\* the missing experiment were both answered 404.
C8_Witness ==
    \E p, q \in Procs :
        /\ leadReq[p].pc = "done" /\ leadReq[q].pc = "done"
        /\ NonBlank(leadReq[p].body.hp_field) /\ NonBlank(leadReq[q].body.hp_field)
        /\ leadReq[p].body.experiment_id = 1
        /\ experiments[1].status = "archive"
        /\ leadReq[q].body.experiment_id = 2
        /\ leadReq[p].resp.http = 404 /\ leadReq[q].resp.http = 404

\* ------------------------------------------------------------------ claims: event deduplication

\* p sends a request and runs its first step (up to the dedup SELECT).
EventCheckStep(p) ==
    /\ eventReq[p].pc \in {"idle", "done"}
    /\ eventReq'[p] # eventReq[p]
    /\ eventReq'[p].body.event_type \notin {Absent, ""}
\* p executes its INSERT in this transition.
EventInsertStep(p) == eventReq[p].pc = "insert" /\ eventReq'[p].pc = "done"

\* The JSON texts of an object's members in any order.
DataTexts(data) ==
    IF data.kind = "absent" THEN {<<"null">>}
    ELSE LET n == Len(data.pairs)
             members == {data.pairs[i] : i \in 1..n}
         IN {StringifyData(q) : q \in {f \in [1..n -> members] :
                                          {f[i] : i \in 1..n} = members}}

\* The row carries the request's experiment_id, event_type and session_id.
SameKeyColumns(row, body) ==
    /\ row.experiment_id = OrNull(body.experiment_id)
    /\ row.event_type = body.event_type
    /\ row.session_id = OrNull(body.session_id)

\* The row was written for the identical event.
IdenticalEvent(row, body) ==
    /\ SameKeyColumns(row, body)
    /\ row.event_data = (IF body.event_data.kind = "absent" THEN <<"null">>
                         ELSE StringifyData(body.event_data.pairs))

\* The row was written for an event with the same experiment_id, event_type,
\* session_id and the same event_data up to the order of its top-level keys.
SameEvent(row, body) ==
    SameKeyColumns(row, body) /\ row.event_data \in DataTexts(body.event_data)

\* Ids of the rows of the same event created less than five minutes ago.
RecentSame(body) ==
    {i \in 1..Len(event_log) :
        SameEvent(event_log[i], body) /\ now - event_log[i].created_at < 300000}

\* C9: when a row of the identical event was created less than 5 minutes
\* before the request, the request is answered with the id of a recent row of
\* that event and deduplicated = true, and event_log is unchanged; when every
\* row of the event was created more than 5 minutes before (or there is none)
\* the request goes on to its INSERT, which appends one row for the event with
\* the store's created_at, changes no other row and is answered with the new
\* id and deduplicated = false.
C9_EventIdempotence ==
    [][\A p \in Procs :
        /\ EventCheckStep(p)
            => LET b == eventReq'[p].body IN
               /\ (\E i \in 1..Len(event_log) :
                        /\ IdenticalEvent(event_log[i], b)
                        /\ now - event_log[i].created_at < 300000)
                    => /\ eventReq'[p].pc = "done"
                       /\ eventReq'[p].resp.http = 201
                       /\ eventReq'[p].resp.deduplicated
                       /\ eventReq'[p].resp.event_id \in RecentSame(b)
                       /\ event_log' = event_log
               /\ (\A i \in 1..Len(event_log) :
                        SameEvent(event_log[i], b)
                        => now - event_log[i].created_at > 300000)
                    => /\ eventReq'[p].pc = "insert"
                       /\ event_log' = event_log
        /\ EventInsertStep(p)
            => /\ Len(event_log') = Len(event_log) + 1
               /\ SubSeq(event_log', 1, Len(event_log)) = event_log
               /\ IdenticalEvent(event_log'[Len(event_log')], eventReq[p].body)
               /\ event_log'[Len(event_log')].created_at = (now \div 1000) * 1000
               /\ eventReq'[p].resp.http = 201
               /\ ~eventReq'[p].resp.deduplicated
               /\ eventReq'[p].resp.event_id = Len(event_log')]_vars

\* C9 witness: the identical event has two rows created at least five minutes
\* apart; one connection got the first id back with deduplicated = true,
\* another the second id with deduplicated = false.
C9_Witness ==
    /\ Len(event_log) = 2
    /\ event_log[2].created_at - event_log[1].created_at >= 300000
    /\ \E p, q \in Procs :
        /\ eventReq[p].pc = "done" /\ eventReq[q].pc = "done"
        /\ eventReq[p].body = eventReq[q].body
        /\ IdenticalEvent(event_log[1], eventReq[p].body)
        /\ IdenticalEvent(event_log[2], eventReq[p].body)
        /\ eventReq[p].resp = EventSuccess(1, TRUE)
        /\ eventReq[q].resp = EventSuccess(2, FALSE)

\* C10: rows written for the same (experiment_id, event_type, session_id,
\* event_data as a set of members) carry the same event_hash, and a request
\* for which such a row was created less than five minutes ago is answered
\* with the id of such a row and deduplicated = true, whatever its key order,
\* visitor_id and User-Agent.
C10_HashDeterminism ==
    [][/\ \A i, j \in 1..Len(event_log') :
            (/\ event_log'[i].experiment_id = event_log'[j].experiment_id
             /\ event_log'[i].event_type = event_log'[j].event_type
             /\ event_log'[i].session_id = event_log'[j].session_id
             /\ \E b \in EventBodies :
                    {event_log'[i].event_data, event_log'[j].event_data}
                        \subseteq DataTexts(b.event_data))
            => event_log'[i].event_hash = event_log'[j].event_hash
       /\ \A p \in Procs :
            (EventCheckStep(p) /\ RecentSame(eventReq'[p].body) # {})
            => /\ eventReq'[p].pc = "done"
               /\ eventReq'[p].resp.deduplicated
               /\ eventReq'[p].resp.event_id \in RecentSame(eventReq'[p].body)]_vars

\* C10 witness: a request with the keys in the other order and a request with
\* another visitor_id and no User-Agent were both deduplicated against the row
\* of the base event.
C10_Witness ==
    \E p, q \in Procs :
        /\ eventReq[p].pc = "done" /\ eventReq[q].pc = "done"
        /\ eventReq[p].resp = EventSuccess(1, TRUE)
        /\ eventReq[q].resp = EventSuccess(1, TRUE)
        /\ eventReq[p].body.event_data = ObjectData(<<<<"b", "2">>, <<"a", "1">>>>)
        /\ eventReq[q].body.visitor_id = "v2"
        /\ event_log[1].event_data = StringifyData(<<<<"a", "1">>, <<"b", "2">>>>)
        /\ event_log[1].visitor_id = <<"v1">>
        /\ event_log[1].user_agent = <<"ua1">>

\* ------------------------------------------------------------------ claims: webhook

\* p sends a delivery and runs its first step in this transition.
HookReceiveStep(p) == hookReq[p].pc \in {"idle", "done"} /\ hookReq'[p] # hookReq[p]
\* p is answered in this transition.
HookAnswerStep(p) == hookReq'[p] # hookReq[p] /\ hookReq'[p].pc = "done"

\* A correctly signed payment_intent.succeeded delivery.
SucceededDelivery(req) ==
    /\ req \in ValidDeliveries
    /\ req.body \in DOMAIN Payloads
    /\ Payloads[req.body].type = "payment_intent.succeeded"

PaymentRowsOf(rows, paymentIntentId) ==
    {i \in 1..Len(rows) : rows[i].stripe_payment_intent_id = paymentIntentId}

\* C11: with deliveries handled one after the other, every correctly signed
\* payment_intent.succeeded delivery is answered 200 {received:true} and
\* leaves exactly one payment row for its intent id, and a delivery that
\* finds the row of its intent changes no payment row and no lead row.
C11_PaymentIdempotence ==
    [][\A p \in Procs :
        /\ (HookAnswerStep(p) /\ SucceededDelivery(hookReq'[p].req))
            => /\ hookReq'[p].resp = HookReceived
               /\ Cardinality(PaymentRowsOf(payments',
                                            Payloads[hookReq'[p].req.body].id)) = 1
        /\ (/\ HookReceiveStep(p)
            /\ SucceededDelivery(hookReq'[p].req)
            /\ PaymentRowsOf(payments, Payloads[hookReq'[p].req.body].id) # {})
            => /\ hookReq'[p].resp = HookReceived
               /\ payments' = payments
               /\ leads' = leads]_vars

\* C12: at most one payment row per stripe_payment_intent_id, in every
\* reachable state of concurrent deliveries.
C12_AtMostOnePaymentRow ==
    \A i, j \in 1..Len(payments) :
        payments[i].stripe_payment_intent_id = payments[j].stripe_payment_intent_id
        => i = j

\* C12 witness: two deliveries of one intent passed the existing-payment
\* check; one inserted the row, the INSERT of the other failed (500).
C12_Witness ==
    \E p, q \in Procs :
        /\ p # q
        /\ hookReq[p].req = hookReq[q].req
        /\ hookReq[p].pc = "done" /\ hookReq[q].pc = "done"
        /\ hookReq[p].resp = HookReceived
        /\ hookReq[q].resp.http = 500
        /\ hookReq[q].experimentId # 0
        /\ Cardinality(PaymentRowsOf(payments, Payloads[hookReq[q].req.body].id)) = 1

\* The header has a component of this key: an element key=value.
HasComponent(signature, key) ==
    \E i \in 1..Len(signature) : signature[i][1] = key /\ Len(signature[i]) >= 2

\* Some v1 component of the header is the lowercase-hex HMAC-SHA256 of
\* "{t}.{body}" under the secret, for a t component of the header.
CarriesValidSignature(req) ==
    \E i, j \in 1..Len(req.signature) :
        /\ req.signature[i][1] = <<"t">> /\ Len(req.signature[i]) >= 2
        /\ req.signature[j][1] = <<"v1">> /\ Len(req.signature[j]) >= 2
        /\ req.signature[j][2] =
             HmacSha256Hex(req.webhookSecret, req.signature[i][2], req.body)

\* The request of p touched no table and issued no statement.
HookLeftStoreAlone(p) ==
    /\ ~storeAccess'["hook"][p]
    /\ payments' = payments /\ leads' = leads /\ event_log' = event_log
    /\ experiments' = experiments

\* C13: with a secret configured, a request whose header carries no valid v1
\* signature is answered 400 INVALID_REQUEST in its first step, without a
\* statement to the store.
C13_SignatureRejection ==
    [][\A p \in Procs :
        (/\ HookReceiveStep(p)
         /\ hookReq'[p].req.webhookSecret # NoSecret
         /\ hookReq'[p].req.signature # NoSignature
         /\ ~CarriesValidSignature(hookReq'[p].req))
        => /\ hookReq'[p].pc = "done"
           /\ hookReq'[p].resp = HookError(400, "INVALID_REQUEST")
           /\ HookLeftStoreAlone(p)]_vars

\* C13 witness: after a payment was recorded, a delivery signed for another
\* body was rejected with 400.
C13_Witness ==
    \E p \in Procs :
        /\ hookReq[p].pc = "done"
        /\ hookReq[p].req = HookRequest("pi1_meta", "tampered", WebhookSecret)
        /\ hookReq[p].resp = HookError(400, "INVALID_REQUEST")
        /\ ~storeAccess["hook"][p]
        /\ Len(payments) = 1

\* The header is absent or lacks a t or a v1 component.
LacksComponent(req) ==
    \/ req.signature = NoSignature
    \/ ~HasComponent(req.signature, <<"t">>)
    \/ ~HasComponent(req.signature, <<"v1">>)

InternalRequest(method, path) ==
    \/ method = "GET" /\ path = <<"experiments">>
    \/ method = "GET" /\ Len(path) = 2 /\ path[1] = "experiments"
    \/ method = "POST" /\ path = <<"experiments">>
    \/ method = "PATCH" /\ Len(path) = 2 /\ path[1] = "experiments"

PublicRequest(method, path) ==
    \/ method = "POST" /\ path = <<"leads">>
    \/ method = "POST" /\ path = <<"events">>
    \/ method = "GET" /\ Len(path) = 3 /\ path[1] = "experiments" /\ path[2] = "by-slug"
    \/ method = "POST" /\ path = <<"payments", "webhook">>
    \/ method = "GET" /\ path = <<"health">>

\* A request of p passes through authMiddleware in this transition.
AuthStep(p) == httpReq'[p] # httpReq[p] /\ httpReq'[p].resp.http \in {0, 401}

\* No handler of p moves and neither the tables nor the store-access marks
\* change.
StoreAndHandlersUnchanged ==
    /\ experiments' = experiments /\ leads' = leads /\ event_log' = event_log
    /\ payments' = payments /\ storeAccess' = storeAccess
    /\ patchReq' = patchReq /\ leadReq' = leadReq /\ eventReq' = eventReq
    /\ hookReq' = hookReq /\ getReq' = getReq

\* C15: a request to an internal route without the configured key is answered
\* 401 UNAUTHORIZED and reaches no handler and no store statement; a request
\* to a public route is handed on to its handler whatever key it carries; and
\* whenever a handler or the store moves, the request being handled is one
\* to a public route or one carrying the configured key.
C15_AuthRequired ==
    [][\A p \in Procs :
        /\ (/\ AuthStep(p)
            /\ InternalRequest(httpReq'[p].method, httpReq'[p].path)
            /\ httpReq'[p].apiKey # SC_API_KEY)
            => /\ httpReq'[p].pc = "done"
               /\ httpReq'[p].resp = [http |-> 401, code |-> "UNAUTHORIZED"]
               /\ StoreAndHandlersUnchanged
        /\ (AuthStep(p) /\ PublicRequest(httpReq'[p].method, httpReq'[p].path))
            => httpReq'[p].pc = "next"
        /\ (p = 1 /\ ~StoreAndHandlersUnchanged)
            => /\ httpReq[p].pc = "next"
               /\ \/ PublicRequest(httpReq[p].method, httpReq[p].path)
                  \/ httpReq[p].apiKey = SC_API_KEY]_vars

\* C15 witness: after a lead was taken and the experiment was patched, a
\* PATCH with another key was answered 401.
C15_Witness ==
    /\ httpReq[1].pc = "done"
    /\ httpReq[1].method = "PATCH"
    /\ httpReq[1].apiKey = "key_2"
    /\ httpReq[1].resp.http = 401
    /\ Len(leads) = 2
    /\ experiments[1].status = "run"

\* ------------------------------------------------------------------ claims: PATCH details

\* p sends a PATCH and runs its first step in this transition.
PatchReadStep(p) == patchReq[p].pc \in {"idle", "done"} /\ patchReq'[p] # patchReq[p]

\* C16: a PATCH answered INVALID_STATUS_TRANSITION carries the stored status
\* as current_status, the requested status as requested_status and, as
\* allowed_transitions, the transition-table entry of the stored status
\* without repetition: [preflight, archive] for draft, the empty list for
\* archive.
C16_TransitionErrorDetails ==
    [][\A p \in Procs :
        (PatchReadStep(p) /\ patchReq'[p].resp.code = "INVALID_STATUS_TRANSITION")
        => LET r == patchReq'[p]
               stored == experiments[r.id].status
               allowed == r.resp.details.allowed_transitions
           IN /\ r.resp.details.current_status = stored
              /\ r.resp.details.requested_status = r.body.status
              /\ SeqRange(allowed) = TransitionTable[stored]
              /\ Len(allowed) = Cardinality(TransitionTable[stored])
              /\ stored = "draft" => allowed = <<"preflight", "archive">>
              /\ stored = "archive" => allowed = << >>]_vars

\* C16 witness: a PATCH of an archived experiment was refused with an empty
\* list of allowed transitions.
C16_Witness ==
    \E p \in Procs :
        /\ patchReq[p].pc = "done"
        /\ patchReq[p].resp.code = "INVALID_STATUS_TRANSITION"
        /\ patchReq[p].resp.details.current_status = "archive"
        /\ patchReq[p].resp.details.requested_status = "draft"
        /\ patchReq[p].resp.details.allowed_transitions = << >>
        /\ experiments[patchReq[p].id].status = "archive"

\* C17: a PATCH of an existing experiment without status and without an
\* allow-listed field, with or without an unrecognized key, is answered 400
\* INVALID_REQUEST and leaves the experiments table as it is; a PATCH with an
\* allow-listed field and an unrecognized key is not refused, its UPDATE
\* sets what the recognized keys say and nothing else, and it is answered
\* 200.
C17_NoFieldsToUpdate ==
    [][\A p \in Procs :
        LET r == patchReq'[p] IN
        /\ (/\ PatchReadStep(p)
            /\ r.id \in DOMAIN experiments
            /\ r.body.status = Absent /\ r.body.name = Absent /\ r.body.slug = Absent)
            => /\ r.pc = "done"
               /\ r.resp = ErrorResponse(400, "INVALID_REQUEST")
               /\ experiments' = experiments
        /\ (/\ PatchReadStep(p)
            /\ r.id \in DOMAIN experiments
            /\ r.body.status = Absent /\ r.body.name # Absent /\ r.body.other # Absent)
            => r.pc = "update"
        /\ (/\ PatchUpdateStep(p)
            /\ r.body.other # Absent /\ r.body.status = Absent /\ r.body.slug = Absent)
            => experiments' = [experiments EXCEPT ![r.id].name = r.body.name]
        /\ (patchReq[p].pc = "fetch" /\ r.pc = "done" /\ r.body.other # Absent)
            => r.resp.http = 200 /\ r.resp.success]_vars

\* C17 witness: after a PATCH changed the name, a PATCH made only of an
\* unrecognized key was answered 400 INVALID_REQUEST.
C17_Witness ==
    \E p \in Procs :
        /\ patchReq[p].pc = "done"
        /\ patchReq[p].body = [status |-> Absent, name |-> Absent, slug |-> Absent,
                               other |-> "x"]
        /\ patchReq[p].resp = ErrorResponse(400, "INVALID_REQUEST")
        /\ patchReq[p].id \in DOMAIN experiments
        /\ experiments[patchReq[p].id].name = "n1"

\* ------------------------------------------------------------------ claims: reads

\* p is answered a read of this route in this transition.
GetStep(p, route) == getReq'[p] # getReq[p] /\ getReq'[p].route = route

\* The fields the specification allows in a by-slug response.
PublicFields == {"id", "name", "slug", "status", "archetype", "copy_pack", "created_at"}
PricingFields == {"price_cents", "stripe_price_id"}

\* Values the internal columns of a row may take.
SpendValues == {NoInt, 0, 5}
LifecycleTimes == {NoTime, StartTime, StartTime + 1000}

\* C18: a by-slug request is answered 200 exactly when an experiment of that
\* slug is in launch or run, and 404 EXPERIMENT_NOT_FOUND otherwise; the data
\* carry the seven public fields with the stored values, price_cents and
\* stripe_price_id only when the stored value is not null, and nothing else;
\* the response is the same for every value of the internal columns
\* max_spend_cents, launched_at and decided_at of the experiment.
C18_PublicBySlug ==
    [][\A p \in Procs :
        GetStep(p, "by_slug")
        => LET r == getReq'[p]
               open == {id \in DOMAIN experiments :
                          /\ experiments[id].slug = r.slug
                          /\ experiments[id].status \in {"launch", "run"}}
           IN IF open = {}
              THEN r.resp.http = 404 /\ r.resp.code = "EXPERIMENT_NOT_FOUND"
                   /\ r.resp.data = << >>
              ELSE /\ r.resp.http = 200 /\ r.resp.success
                   /\ Len(r.resp.data) = 1
                   /\ \E id \in open :
                        LET view == r.resp.data[1]
                            row == experiments[id]
                        IN /\ PublicFields \subseteq DOMAIN view
                           /\ DOMAIN view \subseteq PublicFields \cup PricingFields
                           /\ view.id = id /\ view.name = row.name /\ view.slug = row.slug
                           /\ view.status = row.status /\ view.archetype = row.archetype
                           /\ view.copy_pack = row.copy_pack
                           /\ view.created_at = row.created_at
                           /\ "price_cents" \in DOMAIN view
                                => row.price_cents # NoInt
                                   /\ view.price_cents = row.price_cents
                           /\ "stripe_price_id" \in DOMAIN view
                                => row.stripe_price_id # Absent
                                   /\ view.stripe_price_id = row.stripe_price_id
                           /\ \A spend \in SpendValues, launched, decided \in LifecycleTimes :
                                BySlugResponse(
                                    [experiments EXCEPT ![id].max_spend_cents = spend,
                                                        ![id].launched_at = launched,
                                                        ![id].decided_at = decided],
                                    r.slug) = r.resp]_vars

\* C18 witness: a launched experiment with a spend limit, price 0 and an
\* empty stripe_price_id was returned with price_cents and without
\* stripe_price_id, while the slug of a draft experiment would be 404.
C18_Witness ==
    \E p \in Procs :
        /\ getReq[p].route = "by_slug"
        /\ getReq[p].slug = "s1"
        /\ getReq[p].resp.http = 200
        /\ experiments[1].max_spend_cents = 5
        /\ experiments[1].stripe_price_id = ""
        /\ DOMAIN getReq[p].resp.data[1] = PublicFields \cup {"price_cents"}
        /\ experiments[2].status = "draft"
        /\ BySlugResponse(experiments, "s2").http = 404

\* The limit parameters in use that are numbers, with their values.
NumericLimits ==
    (<<"0">> :> 0) @@ (<<"1">> :> 1) @@ (<<"2">> :> 2) @@ (<<"-", "1">> :> 0 - 1)
    @@ (<<" ", "1">> :> 1) @@ (<<"1", "0", "0">> :> 100) @@ (<<"1", "0", "1">> :> 101)

\* The limits in use that start with a number, as parseInt reads them.
LeadingIntegerLimits == NumericLimits @@ (<<"2", "x">> :> 2)

\* What the specification says of a list response, for the limit values
\* given by a table of the acceptable parameters.
PaginationContract(p, limitValues) ==
    GetStep(p, "list")
    => LET r == getReq'[p]
           limit == IF r.limit = << >> THEN 20
                    ELSE IF r.limit \in DOMAIN limitValues /\ limitValues[r.limit] >= 1
                    THEN (IF limitValues[r.limit] > 100 THEN 100 ELSE limitValues[r.limit])
                    ELSE 0
           matching == {id \in DOMAIN experiments :
                          /\ r.status = Absent \/ experiments[id].status = r.status
                          /\ id > r.cursor}
           items == r.resp.data
           beyond == {id \in matching : \A i \in 1..Len(items) : id > items[i].id}
       IN IF limit = 0
          THEN r.resp.http = 400 /\ r.resp.code = "INVALID_REQUEST"
          ELSE /\ r.resp.http = 200 /\ r.resp.success
               /\ Len(items) <= limit
               /\ \A i \in 1..Len(items) : items[i].id \in matching
               /\ \A i, j \in 1..Len(items) : i < j => items[i].id < items[j].id
               /\ matching \ beyond = {items[i].id : i \in 1..Len(items)}
               /\ r.resp.has_more <=> (beyond # {})
               /\ r.resp.next_cursor =
                    IF r.resp.has_more THEN items[Len(items)].id ELSE 0

\* C19: without a limit the page holds at most 20 items, a limit above 100
\* counts as 100, a limit that is not a number or is below 1 is answered 400
\* INVALID_REQUEST; the items are the matching experiments after the cursor
\* in ascending id order, at most limit of them, has_more says whether
\* matching experiments remain beyond the page, and next_cursor is the last
\* id when has_more and null otherwise.
C19_Pagination ==
    [][\A p \in Procs : PaginationContract(p, NumericLimits)]_vars

\* C19 with the limit read as parseInt reads it: a parameter that starts with
\* a number counts as that number.
C19_PaginationLeadingInteger ==
    [][\A p \in Procs : PaginationContract(p, LeadingIntegerLimits)]_vars

\* ------------------------------------------------------------------ claims: validation order

\* C20: a request answered INVALID_REQUEST has issued no statement to the
\* store, on every route.
C20_InvalidRequestBeforeStore ==
    \A p \in Procs :
        /\ patchReq[p].resp.code = "INVALID_REQUEST" => ~storeAccess["patch"][p]
        /\ leadReq[p].resp.code = "INVALID_REQUEST" => ~storeAccess["lead"][p]
        /\ eventReq[p].resp.code = "INVALID_REQUEST" => ~storeAccess["event"][p]
        /\ hookReq[p].resp.code = "INVALID_REQUEST" => ~storeAccess["hook"][p]
        /\ getReq[p].resp.code = "INVALID_REQUEST" => ~storeAccess["get"][p]

\* C20 without updateExperiment: on the other routes a request answered
\* INVALID_REQUEST has issued no statement.
C20_EdgeValidationElsewhere ==
    \A p \in Procs :
        /\ leadReq[p].resp.code = "INVALID_REQUEST" => ~storeAccess["lead"][p]
        /\ eventReq[p].resp.code = "INVALID_REQUEST" => ~storeAccess["event"][p]
        /\ hookReq[p].resp.code = "INVALID_REQUEST" => ~storeAccess["hook"][p]
        /\ getReq[p].resp.code = "INVALID_REQUEST" => ~storeAccess["get"][p]

\* ------------------------------------------------------------------ claims: uniqueness

\* The INSERT of POST /experiments runs in this transition.
CreateInsertStep(p) == createReq[p].pc = "insert" /\ createReq'[p].pc # "insert"

\* The UPDATE of PATCH /experiments/:id runs in this transition.
PatchUpdateRuns(p) == patchReq[p].pc = "update" /\ patchReq'[p].pc # "update"

\* Another experiment than id has this slug.
SlugInUse(id, slug) ==
    \E other \in DOMAIN experiments : other # id /\ experiments[other].slug = slug

\* C21: a statement that violates a uniqueness constraint of the store ends
\* its request with a 409: DUPLICATE_LEAD for a lead of a stored
\* (experiment_id, email), DUPLICATE_SLUG for a create or a patch to a slug
\* another experiment has; no such request ends with a 5xx or a success.
C21_UniquenessAs409 ==
    [][\A p \in Procs :
        /\ (/\ leadReq[p].pc = "insert" /\ leadReq'[p].pc # "insert"
            /\ \E i \in 1..Len(leads) :
                /\ leads[i].experiment_id = leadReq[p].body.experiment_id
                /\ leads[i].email = leadReq[p].email)
            => /\ leadReq'[p].resp.http = 409
               /\ leadReq'[p].resp.code = "DUPLICATE_LEAD"
        /\ (CreateInsertStep(p) /\ SlugInUse(createReq[p].id, createReq[p].body.slug))
            => /\ createReq'[p].pc = "done"
               /\ createReq'[p].resp = ErrorResponse(409, "DUPLICATE_SLUG")
        /\ (CreateInsertStep(p) /\ createReq[p].id \in DOMAIN experiments)
            => /\ createReq'[p].pc = "done"
               /\ createReq'[p].resp.http = 409
        /\ (/\ PatchUpdateRuns(p)
            /\ patchReq[p].body.slug # Absent
            /\ SlugInUse(patchReq[p].id, patchReq[p].body.slug))
            => /\ patchReq'[p].pc = "done"
               /\ patchReq'[p].resp = ErrorResponse(409, "DUPLICATE_SLUG")]_vars

\* C21 for POST /leads and for a create whose generated id is free: the
\* violation of UNIQUE(experiment_id, email) is answered 409 DUPLICATE_LEAD
\* and the violation of UNIQUE(slug) 409 DUPLICATE_SLUG.
C21_LeadAndCreateSlug ==
    [][\A p \in Procs :
        /\ (/\ leadReq[p].pc = "insert" /\ leadReq'[p].pc # "insert"
            /\ \E i \in 1..Len(leads) :
                /\ leads[i].experiment_id = leadReq[p].body.experiment_id
                /\ leads[i].email = leadReq[p].email)
            => /\ leadReq'[p].resp.http = 409
               /\ leadReq'[p].resp.code = "DUPLICATE_LEAD"
        /\ (/\ CreateInsertStep(p)
            /\ SlugInUse(createReq[p].id, createReq[p].body.slug)
            /\ createReq[p].id \notin DOMAIN experiments)
            => /\ createReq'[p].pc = "done"
               /\ createReq'[p].resp = ErrorResponse(409, "DUPLICATE_SLUG")]_vars

\* C22: no two experiments share a slug (the table is keyed by id); a create
\* whose slug is in use is answered 409 DUPLICATE_SLUG and leaves the table
\* as it is; a create that succeeds adds one row under an id the table did
\* not have and leaves the other rows as they are; a patch keeps the ids.
C22_UniqueIdAndSlug ==
    [][/\ \A a, b \in DOMAIN experiments' :
            a # b => experiments'[a].slug # experiments'[b].slug
       /\ DOMAIN experiments \subseteq DOMAIN experiments'
       /\ \A p \in Procs :
            CreateInsertStep(p)
            => LET r == createReq[p] IN
               IF \E id \in DOMAIN experiments : experiments[id].slug = r.body.slug
               THEN /\ createReq'[p].pc = "done"
                    /\ createReq'[p].resp = ErrorResponse(409, "DUPLICATE_SLUG")
                    /\ experiments' = experiments
               ELSE IF createReq'[p].pc = "fetch"
               THEN /\ r.id \notin DOMAIN experiments
                    /\ DOMAIN experiments' = DOMAIN experiments \cup {r.id}
                    /\ \A id \in DOMAIN experiments : experiments'[id] = experiments[id]
                    /\ experiments'[r.id].slug = r.body.slug
                    /\ experiments'[r.id].status = "draft"
               ELSE experiments' = experiments]_vars

\* C22 witness: three experiments exist, the second now has the slug the
\* first was created with, and the last create, of a slug in use, was
\* answered 409 DUPLICATE_SLUG.
C22_Witness ==
    /\ Cardinality(DOMAIN experiments) = 3
    /\ experiments[2].slug = "s1"
    /\ createReq[1].pc = "done"
    /\ createReq[1].resp = ErrorResponse(409, "DUPLICATE_SLUG")
    /\ createReq[1].body.slug \in {experiments[id].slug : id \in DOMAIN experiments}

\* ------------------------------------------------------------------ claims: webhook event types

\* A correctly signed delivery of this event type.
SignedDelivery(req, eventType) ==
    /\ req \in ValidDeliveries
    /\ req.body \in DOMAIN Payloads
    /\ Payloads[req.body].type = eventType

\* The first statement of a delivery of p has run and the handling goes on.
HookFirstStep(p, eventType) ==
    /\ hookReq[p].pc \in {"idle", "done"}
    /\ hookReq'[p].pc \notin {"idle", "done"}
    /\ SignedDelivery(hookReq'[p].req, eventType)

\* The last statement of a delivery of p in flight has run and the delivery
\* is answered.
HookLastStep(p, eventType) ==
    /\ hookReq[p].pc \notin {"idle", "done"}
    /\ hookReq'[p].pc = "done"
    /\ SignedDelivery(hookReq[p].req, eventType)

\* The payment intent a charge or a dispute names ("<absent>": none).
IntentOf(req) == Payloads[req.body].payment_intent

\* The rows are those of before, except that the rows of the intent have
\* this status.
OnlyStatusOfIntent(after, before, intent, status) ==
    /\ Len(after) = Len(before)
    /\ \A i \in 1..Len(before) :
        IF intent # Absent /\ before[i].stripe_payment_intent_id = intent
        THEN after[i] = [before[i] EXCEPT !.status = status]
        ELSE after[i] = before[i]

\* C23: a correctly signed charge.refunded delivery for intent X sets the
\* status of the payment rows of X to refunded in its first statement and the
\* payment_status of the leads whose stripe_payment_id is X to refunded in
\* its second, is then answered 200 {received:true}, and changes nothing
\* else: no other payment row, no other lead row, no other column, no
\* event_log row; when it is answered every payment row of X and every lead
\* of X is refunded.
C23_RefundPropagation ==
    [][\A p \in Procs :
        /\ HookFirstStep(p, "charge.refunded")
            => /\ OnlyStatusOfIntent(payments', payments, IntentOf(hookReq'[p].req),
                                     "refunded")
               /\ leads' = leads /\ event_log' = event_log
        /\ HookLastStep(p, "charge.refunded")
            => LET X == IntentOf(hookReq[p].req) IN
               /\ hookReq'[p].resp = HookReceived
               /\ payments' = payments /\ event_log' = event_log
               /\ Len(leads') = Len(leads)
               /\ \A i \in 1..Len(leads) :
                    IF X # Absent /\ leads[i].stripe_payment_id = X
                    THEN leads'[i] = [leads[i] EXCEPT !.payment_status = "refunded"]
                    ELSE leads'[i] = leads[i]
               /\ \A i \in 1..Len(payments') :
                    (X # Absent /\ payments'[i].stripe_payment_intent_id = X)
                    => payments'[i].status = "refunded"]_vars

\* C23 witness: the refund of pi_1 has been acknowledged; the payment of
\* pi_1 and its lead are refunded while the payment of pi_2 and its lead are
\* succeeded and the third lead has no payment.
C23_Witness ==
    /\ hookReq[1].pc = "done"
    /\ hookReq[1].req.body = "refund_pi1"
    /\ hookReq[1].resp = HookReceived
    /\ Len(payments) = 2
    /\ \E i, j \in 1..2 :
        /\ payments[i].stripe_payment_intent_id = "pi_1" /\ payments[i].status = "refunded"
        /\ payments[j].stripe_payment_intent_id = "pi_2" /\ payments[j].status = "succeeded"
    /\ leads[1].payment_status = "refunded" /\ leads[1].stripe_payment_id = "pi_1"
    /\ leads[2].payment_status = "succeeded" /\ leads[2].stripe_payment_id = "pi_2"
    /\ leads[3].payment_status = Absent

\* C24: a correctly signed charge.dispute.created delivery for intent X sets
\* the status of the payment rows of X to disputed in its first statement,
\* appends one charge_disputed row naming X and the dispute to event_log in
\* its second, is then answered 200 {received:true}, and changes no lead row
\* and no other payment row.
C24_DisputeAudit ==
    [][\A p \in Procs :
        /\ HookFirstStep(p, "charge.dispute.created")
            => /\ OnlyStatusOfIntent(payments', payments, IntentOf(hookReq'[p].req),
                                     "disputed")
               /\ leads' = leads /\ event_log' = event_log
        /\ HookLastStep(p, "charge.dispute.created")
            => LET X == IntentOf(hookReq[p].req) IN
               /\ hookReq'[p].resp = HookReceived
               /\ payments' = payments /\ leads' = leads
               /\ Len(event_log') = Len(event_log) + 1
               /\ SubSeq(event_log', 1, Len(event_log)) = event_log
               /\ event_log'[Len(event_log')].event_type = "charge_disputed"
               /\ event_log'[Len(event_log')].event_data =
                    <<"{", "payment_intent_id", ":", X, ",",
                      "dispute_id", ":", Payloads[hookReq[p].req.body].id, "}">>
               /\ \A i \in 1..Len(payments') :
                    payments'[i].stripe_payment_intent_id = X
                    => payments'[i].status = "disputed"]_vars

\* C24 witness: the dispute of pi_1 has been acknowledged; the payment of
\* pi_1 is disputed, the payment of pi_2 succeeded, the lead of pi_1 still
\* succeeded and the audit row is the last of event_log.
C24_Witness ==
    /\ hookReq[1].pc = "done"
    /\ hookReq[1].req.body = "dispute_pi1"
    /\ hookReq[1].resp = HookReceived
    /\ \E i, j \in 1..Len(payments) :
        /\ payments[i].stripe_payment_intent_id = "pi_1" /\ payments[i].status = "disputed"
        /\ payments[j].stripe_payment_intent_id = "pi_2" /\ payments[j].status = "succeeded"
    /\ leads[1].payment_status = "succeeded"
    /\ event_log # << >>
    /\ event_log[Len(event_log)].event_type = "charge_disputed"

\* C25: a correctly signed payment_intent.payment_failed delivery is
\* answered 200 {received:true} in one step that appends one payment_failed
\* row naming the intent to event_log and changes no payment row and no
\* lead row.
C25_FailedAudit ==
    [][\A p \in Procs :
        (/\ hookReq[p].pc \in {"idle", "done"}
         /\ hookReq'[p] # hookReq[p]
         /\ SignedDelivery(hookReq'[p].req, "payment_intent.payment_failed"))
        => /\ hookReq'[p].pc = "done"
           /\ hookReq'[p].resp = HookReceived
           /\ payments' = payments /\ leads' = leads
           /\ Len(event_log') = Len(event_log) + 1
           /\ SubSeq(event_log', 1, Len(event_log)) = event_log
           /\ event_log'[Len(event_log')].event_type = "payment_failed"
           /\ event_log'[Len(event_log')].event_data =
                <<"{", "payment_intent_id", ":", Payloads[hookReq'[p].req.body].id,
                  "}">>]_vars

\* C25 witness: the failure of pi_1 has been acknowledged after pi_1 was paid:
\* the payment row and the lead are still succeeded and event_log ends with
\* the payment_failed row.
C25_Witness ==
    /\ hookReq[1].pc = "done"
    /\ hookReq[1].req.body = "failed_pi1"
    /\ hookReq[1].resp = HookReceived
    /\ \E i \in 1..Len(payments) :
        payments[i].stripe_payment_intent_id = "pi_1" /\ payments[i].status = "succeeded"
    /\ leads[1].payment_status = "succeeded"
    /\ event_log # << >>
    /\ event_log[Len(event_log)].event_type = "payment_failed"

\* The event types the handler has a branch for.
HandledEventTypes ==
    {"payment_intent.succeeded", "payment_intent.payment_failed", "charge.refunded",
     "charge.dispute.created"}

\* C26: a correctly signed delivery of an event type without a branch is
\* answered 200 {received:true} in its first step and leaves every table as
\* it is.
C26_UnknownEventType ==
    [][\A p \in Procs :
        (/\ hookReq[p].pc \in {"idle", "done"}
         /\ hookReq'[p] # hookReq[p]
         /\ hookReq'[p].req \in ValidDeliveries
         /\ hookReq'[p].req.body \in DOMAIN Payloads
         /\ Payloads[hookReq'[p].req.body].type \notin HandledEventTypes)
        => /\ hookReq'[p].pc = "done"
           /\ hookReq'[p].resp = HookReceived
           /\ payments' = payments /\ leads' = leads /\ event_log' = event_log
           /\ experiments' = experiments]_vars

\* C26 witness: a customer.created delivery has been acknowledged while the
\* store holds a payment and an audit row.
C26_Witness ==
    /\ hookReq[1].pc = "done"
    /\ hookReq[1].req.body = "other"
    /\ hookReq[1].resp = HookReceived
    /\ payments # << >>
    /\ event_log # << >>

\* ------------------------------------------------------------------ claims: webhook replay and lead resolution

\* The event types whose handling is claimed to repeat without effect.
ReplayedEventTypes ==
    {"payment_intent.payment_failed", "charge.refunded", "charge.dispute.created"}

\* A step of the handling of a delivery of one of these types that repeats
\* the delivery its connection acknowledged last.
ReplayStep(p, eventTypes) ==
    /\ hookReq'[p] # hookReq[p]
    /\ hookReq'[p].redelivery
    /\ hookReq'[p].req \in ValidDeliveries
    /\ hookReq'[p].req.body \in DOMAIN Payloads
    /\ Payloads[hookReq'[p].req.body].type \in eventTypes

\* C27: no step of a repeated payment_intent.payment_failed, charge.refunded
\* or charge.dispute.created delivery changes payments, leads or event_log.
C27_ReplayNoOp ==
    [][\A p \in Procs :
        ReplayStep(p, ReplayedEventTypes)
        => payments' = payments /\ leads' = leads /\ event_log' = event_log]_vars

\* C27 for charge.refunded alone: the repeated delivery changes no modelled
\* column.
C27_RefundReplayNoOp ==
    [][\A p \in Procs :
        ReplayStep(p, {"charge.refunded"})
        => payments' = payments /\ leads' = leads /\ event_log' = event_log]_vars

\* C28: whatever failed before, once a payment_intent.succeeded delivery for
\* intent X is acknowledged there is exactly one payment row of X and, when
\* that row has a lead, the lead has payment_status succeeded,
\* stripe_payment_id X and the amount of the intent.
C28_RetrySafe ==
    \A p \in Procs :
        (/\ hookReq[p].pc = "done"
         /\ hookReq[p].resp = HookReceived
         /\ SucceededDelivery(hookReq[p].req))
        => LET event == Payloads[hookReq[p].req.body]
               rows == PaymentRowsOf(payments, event.id)
           IN /\ Cardinality(rows) = 1
              /\ \A i \in rows :
                    payments[i].lead_id # 0
                    => LET lead == leads[payments[i].lead_id] IN
                       /\ lead.payment_status = "succeeded"
                       /\ lead.stripe_payment_id = event.id
                       /\ lead.payment_amount_cents = event.amount

\* C28 as it holds: whatever failed before, a payment_intent.succeeded
\* delivery for intent X that is acknowledged leaves exactly one payment row
\* of X; the lead of that row is updated by the handling that inserted the
\* row, and an acknowledgment that comes from the existing-payment check
\* changes no payment row and no lead row, so a lead update that failed is
\* not made up for by the redelivery.
C28_RetryOneRow ==
    [][\A p \in Procs :
        (/\ HookAnswerStep(p)
         /\ hookReq'[p].resp = HookReceived
         /\ SucceededDelivery(hookReq'[p].req))
        => LET event == Payloads[hookReq'[p].req.body]
               rows == PaymentRowsOf(payments', event.id)
           IN /\ Cardinality(rows) = 1
              /\ hookReq[p].pc = "update_lead"
                    => \A i \in rows :
                        LET lead == leads'[payments'[i].lead_id] IN
                        /\ lead.payment_status = "succeeded"
                        /\ lead.stripe_payment_id = event.id
                        /\ lead.payment_amount_cents = event.amount
              /\ hookReq[p].pc \in {"idle", "done"}
                    => payments' = payments /\ leads' = leads]_vars

\* C28 witness: the delivery of pi_1 failed with 500 after its payment row
\* was inserted and its redelivery has been acknowledged; the one payment
\* row of pi_1 names lead 1, which has no payment columns set.
C28_Witness ==
    /\ hookReq[1].pc = "done"
    /\ hookReq[1].req.body = "pi1_meta"
    /\ hookReq[1].resp = HookReceived
    /\ Cardinality(PaymentRowsOf(payments, "pi_1")) = 1
    /\ \A i \in PaymentRowsOf(payments, "pi_1") : payments[i].lead_id = 1
    /\ leads[1].payment_status = Absent
    /\ leads[1].stripe_payment_id = Absent

\* A payment_intent.succeeded delivery without metadata.lead_id and
\* metadata.experiment_id whose receipt email is the email of no lead.
Unresolvable(req) ==
    /\ SucceededDelivery(req)
    /\ Payloads[req.body].lead_id = 0
    /\ Payloads[req.body].experiment_id = 0
    /\ \A i \in 1..Len(leads) :
        Payloads[req.body].receipt_email = << >>
        \/ leads[i].email # LowerTrimmed[Payloads[req.body].receipt_email]

\* C29: a correctly signed payment_intent.succeeded delivery for which no
\* experiment and no lead can be resolved is answered 200 {received:true}
\* and leaves one payment row of its intent, with status succeeded and
\* without experiment and lead.
C29_UnresolvedPaymentStored ==
    [][\A p \in Procs :
        (HookAnswerStep(p) /\ Unresolvable(hookReq'[p].req))
        => /\ hookReq'[p].resp = HookReceived
           /\ \E i \in 1..Len(payments') :
                /\ payments'[i].stripe_payment_intent_id = Payloads[hookReq'[p].req.body].id
                /\ payments'[i].status = "succeeded"
                /\ payments'[i].experiment_id = 0
                /\ payments'[i].lead_id = 0
           /\ Cardinality(PaymentRowsOf(payments',
                                        Payloads[hookReq'[p].req.body].id)) = 1]_vars

\* The leads of the normalized receipt email with the greatest created_at.
MostRecentLeads(receipt_email) ==
    LET byEmail == IF receipt_email = << >> THEN {}
                   ELSE {i \in 1..Len(leads) : leads[i].email = LowerTrimmed[receipt_email]}
    IN {i \in byEmail : \A j \in byEmail : leads[j].created_at <= leads[i].created_at}

\* C30: the payment row a first payment_intent.succeeded delivery inserts has
\* the lead metadata.lead_id when given, otherwise a lead of the normalized
\* receipt email with the greatest created_at, otherwise none; a row without
\* lead is acknowledged at once and a row with a lead is followed by one
\* UPDATE that sets payment_status, stripe_payment_id and
\* payment_amount_cents of exactly that lead; no other step of the handling
\* changes a lead row.
C30_LeadResolution ==
    [][\A p \in Procs :
        LET event == Payloads[hookReq[p].req.body] IN
        /\ (hookReq[p].pc = "insert" /\ Len(payments') = Len(payments) + 1)
            => LET row == payments'[Len(payments')]
                   recent == MostRecentLeads(event.receipt_email)
               IN /\ row.stripe_payment_intent_id = event.id
                  /\ IF event.lead_id # 0 THEN row.lead_id = event.lead_id
                     ELSE IF recent # {} THEN row.lead_id \in recent
                     ELSE row.lead_id = 0
                  /\ leads' = leads
                  /\ IF row.lead_id = 0
                     THEN hookReq'[p].pc = "done" /\ hookReq'[p].resp = HookReceived
                     ELSE hookReq'[p].pc = "update_lead"
        /\ (hookReq[p].pc = "update_lead" /\ hookReq'[p].pc = "done")
            => \E i \in PaymentRowsOf(payments, event.id) :
                /\ payments[i].lead_id \in 1..Len(leads)
                /\ leads' = [leads EXCEPT ![payments[i].lead_id] =
                                [@ EXCEPT !.payment_status = "succeeded",
                                          !.stripe_payment_id = event.id,
                                          !.payment_amount_cents = event.amount]]
                /\ hookReq'[p].resp = HookReceived
        /\ (hookReq'[p] # hookReq[p] /\ hookReq[p].pc # "update_lead")
            => leads' = leads]_vars

\* C30 witness: the second lead of a@ is the more recent one; the payment
\* found by email is attached to it, the payment with metadata.lead_id 1 and
\* the same receipt email to lead 1, the payment without a matching lead to
\* none, and the third lead is as it was.
C30_Witness ==
    /\ leads[2].created_at > leads[1].created_at
    /\ \E i, j, k \in 1..Len(payments) :
        /\ payments[i].stripe_payment_intent_id = "pi_2" /\ payments[i].lead_id = 2
        /\ payments[j].stripe_payment_intent_id = "pi_4" /\ payments[j].lead_id = 1
        /\ payments[k].stripe_payment_intent_id = "pi_5" /\ payments[k].lead_id = 0
    /\ leads[2].stripe_payment_id = "pi_2" /\ leads[2].payment_amount_cents = 700
    /\ leads[1].stripe_payment_id = "pi_4" /\ leads[1].payment_status = "succeeded"
    /\ leads[3].payment_status = Absent /\ leads[3].stripe_payment_id = Absent
    /\ hookReq[1].pc = "done"

\* ------------------------------------------------------------------ claims: event records

\* Two request bodies agree on experiment_id, event_type, session_id and
\* event_data (an object up to the order of its members).
SameRecord(b1, b2) ==
    /\ b1.experiment_id = b2.experiment_id
    /\ b1.event_type = b2.event_type
    /\ b1.session_id = b2.session_id
    /\ b1.event_data.kind = b2.event_data.kind
    /\ b1.event_data.literal = b2.event_data.literal
    /\ Len(b1.event_data.pairs) = Len(b2.event_data.pairs)
    /\ {b1.event_data.pairs[i] : i \in 1..Len(b1.event_data.pairs)}
        = {b2.event_data.pairs[i] : i \in 1..Len(b2.event_data.pairs)}

\* C31: a request is deduplicated against the row another request inserted
\* only if the two agree on experiment_id, event_type, session_id and
\* event_data; in particular a request whose session_id or event_data is the
\* present value "", 0 or false is not deduplicated against the row of the
\* request that leaves the value out.
C31_PresentValuesKept ==
    [][\A p, q \in Procs :
        (/\ p # q
         /\ EventCheckStep(p)
         /\ eventReq'[p].pc = "done"
         /\ eventReq'[p].resp.deduplicated
         /\ eventReq[q].pc = "done"
         /\ eventReq[q].resp = EventSuccess(eventReq'[p].resp.event_id, FALSE))
        => SameRecord(eventReq'[p].body, eventReq[q].body)]_vars

\* C31 for truthy values: a request is deduplicated against the row of a
\* request that differs from it in experiment_id, event_type, session_id or
\* event_data only when each value in which they differ is falsy (absent, "",
\* 0, false) in both.
C31_FalsyValuesMerged ==
    [][\A p, q \in Procs :
        (/\ p # q
         /\ EventCheckStep(p)
         /\ eventReq'[p].pc = "done"
         /\ eventReq'[p].resp.deduplicated
         /\ eventReq[q].pc = "done"
         /\ eventReq[q].resp = EventSuccess(eventReq'[p].resp.event_id, FALSE))
        => LET b1 == eventReq'[p].body
               b2 == eventReq[q].body
           IN /\ b1.event_type = b2.event_type
              /\ b1.experiment_id = b2.experiment_id
                    \/ {b1.experiment_id, b2.experiment_id} \subseteq {Absent, ""}
              /\ b1.session_id = b2.session_id
                    \/ {b1.session_id, b2.session_id} \subseteq {Absent, ""}
              /\ SameRecord([b1 EXCEPT !.experiment_id = "", !.session_id = ""],
                            [b2 EXCEPT !.experiment_id = "", !.session_id = ""])
                    \/ (Falsy(b1.event_data) /\ Falsy(b2.event_data))]_vars

\* C32: the INSERT of a call that passed the dedup check is not made to
\* depend on the check still holding: when a row with the call's hash created
\* less than five minutes ago is in event_log by then, the INSERT appends a
\* second row with that hash and the call is answered deduplicated = false.
C32_CheckThenInsert ==
    [][\A p \in Procs :
        (/\ EventInsertStep(p)
         /\ \E i \in 1..Len(event_log) :
                /\ event_log[i].event_hash = eventReq[p].eventHash
                /\ now - event_log[i].created_at < FiveMinutes)
        => /\ Len(event_log') = Len(event_log) + 1
           /\ SubSeq(event_log', 1, Len(event_log)) = event_log
           /\ event_log'[Len(event_log')].event_hash = eventReq[p].eventHash
           /\ eventReq'[p].resp = EventSuccess(Len(event_log'), FALSE)]_vars

\* C32 witness: two calls with the identical event both passed the check and
\* both inserted; event_log holds two rows with the same hash created within
\* five minutes of each other and both calls were answered
\* deduplicated = false.
C32_Witness ==
    /\ Len(event_log) = 2
    /\ event_log[1].event_hash = event_log[2].event_hash
    /\ event_log[2].created_at - event_log[1].created_at < FiveMinutes
    /\ eventReq[1].pc = "done" /\ eventReq[2].pc = "done"
    /\ eventReq[1].body = eventReq[2].body
    /\ {eventReq[1].resp, eventReq[2].resp} = {EventSuccess(1, FALSE), EventSuccess(2, FALSE)}

\* ------------------------------------------------------------------ claims: PATCH frame

\* C33: no step changes the set of experiment ids or the created_at of an
\* experiment; launched_at changes only in the UPDATE of a patch to status
\* launch on a row without launched_at, and becomes the time of the request;
\* decided_at likewise for status decide.  Keys id, created_at, launched_at
\* and decided_at of the body have no effect.
C33_SystemColumns ==
    [][/\ DOMAIN experiments' = DOMAIN experiments
       /\ \A id \in DOMAIN experiments :
            LET old == experiments[id]
                new == experiments'[id]
            IN /\ new.created_at = old.created_at
               /\ new.launched_at # old.launched_at
                    => \E p \in Procs :
                        /\ PatchUpdateStep(p) /\ patchReq[p].id = id
                        /\ patchReq[p].body.status = "launch"
                        /\ old.launched_at = NoTime
                        /\ new.launched_at = now
               /\ new.decided_at # old.decided_at
                    => \E p \in Procs :
                        /\ PatchUpdateStep(p) /\ patchReq[p].id = id
                        /\ patchReq[p].body.status = "decide"
                        /\ old.decided_at = NoTime
                        /\ new.decided_at = now]_vars

\* C33 witness: a patch carrying name and the key launched_at was applied to
\* a draft experiment: the name is stored and launched_at is still null.
C33_Witness ==
    /\ patchReq[1].pc = "done"
    /\ patchReq[1].resp = SuccessResponse(200)
    /\ patchReq[1].body.other = "launched_at"
    /\ patchReq[1].body.name = "n1"
    /\ patchReq[1].body.status = Absent
    /\ experiments[1].name = "n1"
    /\ experiments[1].status = "draft"
    /\ experiments[1].launched_at = NoTime
    /\ experiments[1].created_at = StoreNow(StartTime)

\* ------------------------------------------------------------------ claims: experiment ids

\* The highest sequence number in use.
MaxSequence(exps) == CHOOSE n \in DOMAIN exps : \A m \in DOMAIN exps : m <= n

\* C34: the INSERT of a create with valid name, valid archetype and an unused
\* slug succeeds; it stores a new draft experiment whose sequence number is
\* one more than the highest sequence number in use, however many experiments
\* exist.
C34_NextSequence ==
    [][\A p \in Procs :
        (/\ CreateInsertStep(p)
         /\ \A id \in DOMAIN experiments : experiments[id].slug # createReq[p].body.slug)
        => /\ createReq'[p].pc = "fetch"
           /\ createReq[p].id \notin DOMAIN experiments
           /\ createReq[p].id = MaxSequence(experiments) + 1
           /\ DOMAIN experiments' = DOMAIN experiments \cup {createReq[p].id}
           /\ experiments'[createReq[p].id].status = "draft"]_vars

\* C34 while no sequence number has more than three digits: as C34, for
\* stores whose highest sequence number is below 1000.
C34_NextSequenceBelow1000 ==
    [][\A p \in Procs :
        (/\ CreateInsertStep(p)
         /\ MaxSequence(experiments) < 1000
         /\ \A id \in DOMAIN experiments : experiments[id].slug # createReq[p].body.slug)
        => /\ createReq'[p].pc = "fetch"
           /\ createReq[p].id \notin DOMAIN experiments
           /\ createReq[p].id = MaxSequence(experiments) + 1
           /\ DOMAIN experiments' = DOMAIN experiments \cup {createReq[p].id}
           /\ experiments'[createReq[p].id].status = "draft"]_vars

\* C35: when the INSERT of a create runs while a create of another
\* connection, with another slug, is between its id-generation read and its
\* response, and both slugs were unused when the requests arrived, the INSERT
\* succeeds and the ids of the two requests differ.
C35_ConcurrentCreates ==
    [][\A p, q \in Procs :
        (/\ p # q
         /\ CreateInsertStep(p)
         /\ createReq[q].body.slug # createReq[p].body.slug
         /\ \/ createReq[q].pc = "fetch"
            \/ /\ createReq[q].pc = "insert"
               /\ \A id \in DOMAIN experiments :
                    experiments[id].slug # createReq[q].body.slug
         /\ \A id \in DOMAIN experiments : experiments[id].slug # createReq[p].body.slug)
        => /\ createReq'[p].pc = "fetch"
           /\ createReq[p].id # createReq[q].id]_vars

\* C36: a PATCH answered INVALID_STATUS_TRANSITION is answered in the step
\* that read the row, before any UPDATE of the request, and that step leaves
\* every experiment as it was, whatever other fields the body carries.
C36_RejectedAsAWhole ==
    [][\A p \in Procs :
        (/\ patchReq'[p] # patchReq[p]
         /\ patchReq'[p].pc = "done"
         /\ patchReq'[p].resp.code = "INVALID_STATUS_TRANSITION")
        => /\ patchReq[p].pc \in {"idle", "done"}
           /\ experiments' = experiments]_vars

\* C36 witness: a patch with a transition the table does not allow and a new
\* name was rejected; the experiment has its old name and status.
C36_Witness ==
    /\ patchReq[1].pc = "done"
    /\ patchReq[1].id = 1
    /\ patchReq[1].resp.code = "INVALID_STATUS_TRANSITION"
    /\ patchReq[1].body.status = "run"
    /\ patchReq[1].body.name = "n1"
    /\ experiments[1].name = "n0"
    /\ experiments[1].status = "draft"

\* ------------------------------------------------------------------ claims: lifecycle timestamps

\* C37: every experiment in status launch, run or decide has a launched_at,
\* and every experiment in status decide has a decided_at.
C37_LifecycleStamps ==
    \A id \in DOMAIN experiments :
        /\ experiments[id].status \in {"launch", "run", "decide"}
            => experiments[id].launched_at # NoTime
        /\ experiments[id].status = "decide"
            => experiments[id].decided_at # NoTime

\* C37 witness: SC-2026-002 was created through POST /experiments and patched
\* step by step to decide; it has both timestamps.
C37_Witness ==
    /\ createReq[1].pc = "done"
    /\ createReq[1].id = 2
    /\ createReq[1].resp = SuccessResponse(201)
    /\ 2 \in DOMAIN experiments
    /\ experiments[2].status = "decide"
    /\ experiments[2].launched_at # NoTime
    /\ experiments[2].decided_at # NoTime

\* ------------------------------------------------------------------ claims: webhook ordering

\* C38: while the last delivery on a connection is an acknowledged
\* charge.refunded for an intent, no payment row of that intent has status
\* succeeded.
C38_RefundIsFinal ==
    \A p \in Procs :
        (/\ hookReq[p].pc = "done"
         /\ SignedDelivery(hookReq[p].req, "charge.refunded")
         /\ hookReq[p].resp = HookReceived)
        => \A i \in PaymentRowsOf(payments, IntentOf(hookReq[p].req)) :
                payments[i].status # "succeeded"

\* C39: every payment row with a lead_id and an experiment_id names a lead of
\* that experiment.
C39_LeadOfSameExperiment ==
    \A i \in 1..Len(payments) :
        (payments[i].lead_id # 0 /\ payments[i].experiment_id # 0)
        => /\ payments[i].lead_id \in 1..Len(leads)
           /\ leads[payments[i].lead_id].experiment_id = payments[i].experiment_id

\* C39 when metadata names no experiment: a payment row whose delivery
\* carries no metadata.experiment_id and no metadata.lead_id has the lead
\* found by the receipt email and the experiment of that lead.
C39_ExperimentOfFoundLead ==
    [][\A p \in Procs :
        (/\ hookReq[p].pc = "insert"
         /\ Len(payments') = Len(payments) + 1
         /\ Payloads[hookReq[p].req.body].experiment_id = 0
         /\ Payloads[hookReq[p].req.body].lead_id = 0)
        => LET row == payments'[Len(payments')] IN
           /\ row.lead_id \in 1..Len(leads)
           /\ row.experiment_id = leads[row.lead_id].experiment_id]_vars

\* ------------------------------------------------------------------ claims: pagination walk

\* The ids of the experiments with this status (any, for no filter) in
\* ascending order.
MatchingIds(status) ==
    LET ids == {id \in DOMAIN experiments :
                    status = Absent \/ experiments[id].status = status}
    IN FirstAscending(ids, Cardinality(ids))

\* C40: a client that follows next_cursor from a request without cursor, with
\* the same status and limit, has received the matching experiments in
\* ascending id order without gap or repetition: the ids received so far are
\* a proper prefix of the ascending list of matching ids while has_more is
\* true and the whole list once has_more is false, and then next_cursor is
\* null.
C40_CursorWalk ==
    \A p \in Procs :
        (getReq[p].route = "sync" /\ getReq[p].resp.http = 200)
        => LET all == MatchingIds(getReq[p].status)
               walk == getReq[p].walk
           IN /\ Len(walk) <= Len(all)
              /\ walk = SubSeq(all, 1, Len(walk))
              /\ getReq[p].resp.has_more <=> Len(walk) < Len(all)
              /\ ~getReq[p].resp.has_more => getReq[p].resp.next_cursor = 0

\* C40 witness: three experiments match; the client asked for pages of one
\* and has received the third page, which is the last.
C40_Witness ==
    /\ getReq[1].route = "sync"
    /\ getReq[1].limit = <<"1">>
    /\ getReq[1].status = Absent
    /\ getReq[1].cursor = 2
    /\ getReq[1].walk = <<1, 2, 3>>
    /\ ~getReq[1].resp.has_more
    /\ getReq[1].resp.next_cursor = 0


====
